---------------------------- MODULE Spec2Model ----------------------------
(***************************************************************************)
(* LInQer.Slim: the Enumerable wrapper (src/LInQer.Slim.ts).               *)
(*                                                                         *)
(* The heap is the sequence of Enumerable instances created so far; an     *)
(* Enumerable is known by its position in the heap.  The closures the code *)
(* stores in _count and _tryGetAt are records naming the code of the       *)
(* closure (k) and the variables it captured.  A generator function is     *)
(* modelled by the sequence of events of one complete run of its body; a   *)
(* consumer that stops early sees a prefix of that sequence.               *)
(***************************************************************************)
EXTENDS Integers, Sequences, FiniteSets, TLC


\* const v = ...; B(v): the value is computed once and then used by B
Let(v, B(_)) == B(v)

(* ---------------------------------------------------------------------- *)
(* Bounds of the explored client programs                                  *)
(* ---------------------------------------------------------------------- *)
\* largest element value of a source
MaxVal == 2
\* longest source array / string / generator
MaxLen == 2
\* number of API calls of one client program
MaxOps == 3
\* number of calls of a client program that only builds
MaxBuild == 2
\* number of Enumerable instances of one client program
MaxHeap == 6
\* number of operations between the source and the take of a partition program
MaxDerive == 1
\* number of calls of a partition program
MaxChain == 6
\* number of reading calls of a reading program
MaxReads == 2
\* number of iteration sessions a client program holds at a time
MaxSessions == 2

(* ---------------------------------------------------------------------- *)
(* JavaScript values: numbers are integers, the rest are tagged codes      *)
(* ---------------------------------------------------------------------- *)
NaN == 1000
Undefined == 1001
EmptyStr == 1002
\* the one-character strings 'a', 'b', ... are CharBase + 1, CharBase + 2, ...
CharBase == 1010

IsNumber(v) == v < NaN
IsChar(v) == v > CharBase

Min(a, b) == IF a < b THEN a ELSE b
Max(a, b) == IF a > b THEN a ELSE b

Vals == 1..MaxVal
Chars == {CharBase + v : v \in Vals}

RECURSIVE SeqsUpTo(_, _)
SeqsUpTo(S, n) ==
  IF n = 0 THEN {<<>>}
  ELSE LET shorter == SeqsUpTo(S, n - 1)
       IN shorter \cup {Append(s, x) : s \in {t \in shorter : Len(t) = n - 1}, x \in S}

\* the integer arguments of take / skip / splice / elementAt that are tried
Ints == -1..(MaxLen + 1)

(* ---------------------------------------------------------------------- *)
(* User supplied functions                                                 *)
(* ---------------------------------------------------------------------- *)
\* selectors: x => x * 2  and  (x, i) => i ; "notFn" is a value that is not callable
Selectors == {"double", "index"}
\* filters: x => x === 1 , (x, i) => i === 0 , x => false
Filters == {"isOne", "firstIndex", "never"}
\* equality comparers: "default" is EqualityComparer.default (also the default argument),
\* "exact" is EqualityComparer.exact
Equalities == {"default", "exact"}
\* comparers of stats: "none" is the omitted argument, "reverse" is (a, b) => b - a sign,
\* "zero" is the number 0 (falsy and not callable)
Comparers == {"none", "reverse"}
NotFn == "notFn"
FalsyNotFn == "zero"

\* x * 2 in JavaScript
Times2(v) ==
  IF IsNumber(v) THEN 2 * v
  ELSE IF v = EmptyStr THEN 0
  ELSE NaN

\* selector(item, index); index = Undefined when the caller passes one argument
CallSelector(fn, item, index) ==
  IF fn = "double" THEN Times2(item) ELSE index

\* condition(item, index)
CallFilter(fn, item, index) ==
  IF fn = "isOne" THEN item = 1
  ELSE IF fn = "firstIndex" THEN index = 0
  ELSE FALSE

\* item1 === item2
StrictEquals(a, b) == a = b /\ a # NaN

\* item1 < item2 in JavaScript, for the values of the model
JsLess(a, b) ==
  IF IsNumber(a) /\ IsNumber(b) THEN a < b
  ELSE IF a = NaN \/ b = NaN \/ a = Undefined \/ b = Undefined THEN FALSE
  ELSE IF IsNumber(a) THEN b = EmptyStr /\ a < 0
  ELSE IF IsNumber(b) THEN a = EmptyStr /\ 0 < b
  ELSE a < b

\* _defaultComparer
DefaultComparer(a, b) ==
  IF JsLess(b, a) THEN 1 ELSE IF JsLess(a, b) THEN -1 ELSE 0

\* comparer(item1, item2) of stats
CallComparer(fn, a, b) ==
  IF fn = "reverse" THEN DefaultComparer(b, a) ELSE DefaultComparer(a, b)

(* ---------------------------------------------------------------------- *)
(* Events of a run of a generator                                          *)
(*   S h : for-of starts on Enumerable h ([Symbol.iterator] of h is called)*)
(*   P h : an item is pulled from the iteration of Enumerable h            *)
(*   C   : a user supplied function is called                              *)
(*   Y v : the generator yields v to its consumer                          *)
(*   X   : the generator throws a TypeError                                *)
(* ---------------------------------------------------------------------- *)
EvS(h) == [t |-> "S", h |-> h, v |-> 0]
EvP(h) == [t |-> "P", h |-> h, v |-> 0]
EvC == [t |-> "C", h |-> 0, v |-> 0]
EvY(v) == [t |-> "Y", h |-> 0, v |-> v]
EvX == [t |-> "X", h |-> 0, v |-> 0]

\* the values yielded in a run
Yields(T) == SelectSeq(T, LAMBDA e : e.t = "Y")
YieldValues(T) == [i \in 1..Len(Yields(T)) |-> Yields(T)[i].v]
Throws(T) == \E i \in 1..Len(T) : T[i].t = "X"

\* the events a consumer causes that takes k items and then stops
\* (all of the run when it has fewer than k items)
RECURSIVE UpToYield(_, _)
UpToYield(T, k) ==
  IF T = <<>> \/ k <= 0 THEN <<>>
  ELSE IF Head(T).t = "Y" THEN <<Head(T)>> \o UpToYield(Tail(T), k - 1)
  ELSE <<Head(T)>> \o UpToYield(Tail(T), k)

\* the body of a generator over a raw array, string or user generator function
ItemsRun(items) == [i \in 1..Len(items) |-> EvY(items[i])]


(* ---------------------------------------------------------------------- *)
(* The heap of Enumerable instances                                        *)
(* ---------------------------------------------------------------------- *)
\* _src: what the constructor was given.  t is "array", "string", "genfn" (a generator
\* function of the client), "typed" (a typed array: iterable, with a numeric length, indexed
\* by position), "linked" (an iterable object with a numeric length whose elements are not
\* properties named by position), "enumerable" (an Enumerable, self), or the generator function
\* of an operation: "rangeGen", "repeatGen", "selectGen", "whereGen", "takeGen", "skipGen",
\* "concatGen", "distinctGen", with the variables the generator captured.
MkSrc(t, items, self, other, nr, start, fn, raw) ==
  [t |-> t, items |-> items, self |-> self, other |-> other, nr |-> nr,
   start |-> start, fn |-> fn, raw |-> raw]

RawSrc(t, items) == MkSrc(t, items, 0, 0, 0, 0, "", FALSE)
GenSrc(t, self, nr, fn) == MkSrc(t, <<>>, self, 0, nr, 0, fn, FALSE)

\* a closure stored in _count or _tryGetAt: k names its code, the rest is what it captured
MkFn(k, self, other, nr, start, fn) ==
  [k |-> k, self |-> self, other |-> other, nr |-> nr, start |-> start, fn |-> fn]

NullFn == MkFn("null", 0, 0, 0, 0, "")

\* constructor: the fields of a new Enumerable
NewEnumerable(src) ==
  [_src |-> src, _canSeek |-> FALSE, _count |-> NullFn, _tryGetAt |-> NullFn,
   _wasIterated |-> FALSE]

\* _ensureIterable: the sources it accepts.  "" is falsy and is refused like null.
EnsureIterableOk(src) ==
  \/ src.t \in {"array", "typed", "linked"}
  \/ src.t = "string" /\ src.items # <<>>
  \/ src.t = "enumerable"
  \/ src.t \in {"genfn", "endless", "rangeGen", "repeatGen", "selectGen", "whereGen", "takeGen",
                "skipGen", "concatGen", "distinctGen"}

\* _ensureFunction
EnsureFunctionOk(fn) == fn \notin {NotFn, FalsyNotFn, ""}

(* ---------------------------------------------------------------------- *)
(* The bodies of the generator functions                                   *)
(* ---------------------------------------------------------------------- *)
\* range, repeat: for (let i = 0; i < count; i++) yield ...
RangeRun(start, count) == [i \in 1..Max(count, 0) |-> EvY(start + i - 1)]
RepeatRun(item, count) == [i \in 1..Max(count, 0) |-> EvY(item)]

\* select: the run T of self, each item mapped by selector(item, index)
RECURSIVE SelectRun(_, _, _, _)
SelectRun(T, self, fn, index) ==
  IF T = <<>> THEN <<>>
  ELSE IF Head(T).t = "Y"
       THEN <<EvP(self), EvC, EvY(CallSelector(fn, Head(T).v, index))>>
            \o SelectRun(Tail(T), self, fn, index + 1)
       ELSE <<Head(T)>> \o SelectRun(Tail(T), self, fn, index)

\* where: the run T of self, an item is yielded when condition(item, index)
RECURSIVE WhereRun(_, _, _, _)
WhereRun(T, self, fn, index) ==
  IF T = <<>> THEN <<>>
  ELSE IF Head(T).t = "Y"
       THEN <<EvP(self), EvC>>
            \o (IF CallFilter(fn, Head(T).v, index) THEN <<EvY(Head(T).v)>> ELSE <<>>)
            \o WhereRun(Tail(T), self, fn, index + 1)
       ELSE <<Head(T)>> \o WhereRun(Tail(T), self, fn, index)

\* take: yield while nrLeft > 0, break as soon as nrLeft <= 0 (after pulling an item)
RECURSIVE TakeRun(_, _, _)
TakeRun(T, self, nrLeft) ==
  IF T = <<>> THEN <<>>
  ELSE IF Head(T).t = "Y"
       THEN IF nrLeft > 0
            THEN <<EvP(self), EvY(Head(T).v)>>
                 \o (IF nrLeft - 1 <= 0 THEN <<>> ELSE TakeRun(Tail(T), self, nrLeft - 1))
            ELSE <<EvP(self)>>
       ELSE <<Head(T)>> \o TakeRun(Tail(T), self, nrLeft)

\* skip: drop items while nrLeft > 0
RECURSIVE SkipRun(_, _, _)
SkipRun(T, self, nrLeft) ==
  IF T = <<>> THEN <<>>
  ELSE IF Head(T).t = "Y"
       THEN IF nrLeft > 0
            THEN <<EvP(self)>> \o SkipRun(Tail(T), self, nrLeft - 1)
            ELSE <<EvP(self), EvY(Head(T).v)>> \o SkipRun(Tail(T), self, nrLeft)
       ELSE <<Head(T)>> \o SkipRun(Tail(T), self, nrLeft)

\* distinct without comparer: a Set of the values seen (NaN is found in a Set)
RECURSIVE DistinctSetRun(_, _, _)
DistinctSetRun(T, self, distinctValues) ==
  IF T = <<>> THEN <<>>
  ELSE IF Head(T).t = "Y"
       THEN <<EvP(self)>>
            \o (IF Head(T).v \in distinctValues THEN <<>> ELSE <<EvY(Head(T).v)>>)
            \o DistinctSetRun(Tail(T), self, distinctValues \cup {Head(T).v})
       ELSE <<Head(T)>> \o DistinctSetRun(Tail(T), self, distinctValues)

\* the inner loop of distinct with a comparer: the calls made for item against values[i..],
\* unique is the last element of the result
RECURSIVE CompareLoop(_, _, _, _)
CompareLoop(fn, item, values, i) ==
  IF i > Len(values) THEN [ev |-> <<>>, unique |-> TRUE, threw |-> FALSE]
  ELSE IF ~EnsureFunctionOk(fn) THEN [ev |-> <<EvX>>, unique |-> FALSE, threw |-> TRUE]
  ELSE IF StrictEquals(item, values[i]) THEN [ev |-> <<EvC>>, unique |-> FALSE, threw |-> FALSE]
  ELSE LET rest == CompareLoop(fn, item, values, i + 1)
       IN [ev |-> <<EvC>> \o rest.ev, unique |-> rest.unique, threw |-> rest.threw]

\* distinct with a comparer: every item is compared with all the items before it
RECURSIVE DistinctCmpRun(_, _, _, _)
DistinctCmpRun(T, self, fn, values) ==
  IF T = <<>> THEN <<>>
  ELSE IF Head(T).t = "Y"
       THEN LET c == CompareLoop(fn, Head(T).v, values, 1)
            IN <<EvP(self)>> \o c.ev
               \o (IF c.threw THEN <<>>
                   ELSE (IF c.unique THEN <<EvY(Head(T).v)>> ELSE <<>>)
                        \o DistinctCmpRun(Tail(T), self, fn, Append(values, Head(T).v)))
       ELSE <<Head(T)>> \o DistinctCmpRun(Tail(T), self, fn, values)

\* concat: for (const item of x) yield item, over the run T of x (h = x, or 0 for the
\* Enumerable that from(iterable) creates inside the generator)
RECURSIVE PassRun(_, _)
PassRun(T, h) ==
  IF T = <<>> THEN <<>>
  ELSE IF Head(T).t = "Y" THEN <<EvP(h), Head(T)>> \o PassRun(Tail(T), h)
  ELSE <<Head(T)>> \o PassRun(Tail(T), h)

\* a run that threw ends at the throw
RECURSIVE CutAtThrow(_)
CutAtThrow(T) ==
  IF T = <<>> THEN <<>>
  ELSE IF Head(T).t = "X" THEN <<Head(T)>>
  ELSE <<Head(T)>> \o CutAtThrow(Tail(T))

\* _generator(): one complete run of the generator of Enumerable e.
\* for (const item of self) inside a body first calls self[Symbol.iterator] (event S).
RECURSIVE Run(_, _)
Run(heap, e) ==
  LET src == heap[e]._src
  IN CutAtThrow(
     CASE src.t \in {"array", "string", "genfn", "typed", "linked"} -> ItemsRun(src.items)
       \* the generator is [Symbol.iterator] of the inner Enumerable, bound to it
       [] src.t = "enumerable" -> <<EvS(src.self)>> \o Run(heap, src.self)
       [] src.t = "rangeGen" -> RangeRun(src.start, src.nr)
       [] src.t = "repeatGen" -> RepeatRun(src.start, src.nr)
       [] src.t = "selectGen" -> <<EvS(src.self)>> \o SelectRun(Run(heap, src.self), src.self, src.fn, 0)
       [] src.t = "whereGen" -> <<EvS(src.self)>> \o WhereRun(Run(heap, src.self), src.self, src.fn, 0)
       [] src.t = "takeGen" -> <<EvS(src.self)>> \o TakeRun(Run(heap, src.self), src.self, src.nr)
       [] src.t = "skipGen" -> <<EvS(src.self)>> \o SkipRun(Run(heap, src.self), src.self, src.nr)
       [] src.t = "distinctGen" ->
            <<EvS(src.self)>> \o
            (IF src.fn = "default"
             THEN DistinctSetRun(Run(heap, src.self), src.self, {})
             ELSE DistinctCmpRun(Run(heap, src.self), src.self, src.fn, <<>>))
       [] src.t = "concatGen" ->
            LET first == <<EvS(src.self)>> \o PassRun(Run(heap, src.self), src.self)
            IN IF Throws(first) THEN first
               \* Enumerable.from(iterable) is other itself when iterable was an Enumerable,
               \* and a new Enumerable over the same raw source otherwise
               ELSE IF src.raw THEN first \o PassRun(Run(heap, src.other), 0)
               ELSE first \o <<EvS(src.other)>> \o PassRun(Run(heap, src.other), src.other))

\* for (const item of e): [Symbol.iterator] of e, then the run
Iterate(heap, e) == <<EvS(e)>> \o Run(heap, e)

(* ---------------------------------------------------------------------- *)
(* The capability resolvers                                                *)
(* ---------------------------------------------------------------------- *)
\* typeof src !== 'function' && typeof src.length === 'number'
HasNumericLength(src) == src.t \in {"array", "string", "typed", "linked"}

\* _ensureInternalCount(enumerable): the heap after the call
RECURSIVE EnsureInternalCount(_, _)
EnsureInternalCount(heap, e) ==
  IF heap[e]._count.k # "null" THEN heap
  ELSE IF heap[e]._src.t = "enumerable"
       THEN LET innerEnumerable == heap[e]._src.self
                h1 == EnsureInternalCount(heap, innerEnumerable)
            IN [h1 EXCEPT ![e]._count = MkFn("innerCount", innerEnumerable, 0, 0, 0, "")]
  ELSE IF HasNumericLength(heap[e]._src)
       THEN [heap EXCEPT ![e]._count = MkFn("srcLength", e, 0, 0, 0, "")]
  \* no source of the model has a numeric size; a generator function is counted by iterating
  ELSE [heap EXCEPT ![e]._count = MkFn("scanCount", e, 0, 0, 0, "")]

\* _ensureInternalTryGetAt(enumerable) as it would be without the test of _tryGetAt at its
\* start, inspecting the source again and installing what it finds
RECURSIVE EnsureInternalTryGetAt_Again(_, _)
EnsureInternalTryGetAt_Again(heap, e) ==
  IF heap[e]._src.t = "enumerable"
  THEN LET innerEnumerable == heap[e]._src.self
           h1 == EnsureInternalTryGetAt_Again(heap, innerEnumerable)
       IN [h1 EXCEPT ![e]._tryGetAt = MkFn("innerGet", innerEnumerable, 0, 0, 0, ""),
                     ![e]._canSeek = h1[innerEnumerable]._canSeek]
  ELSE IF heap[e]._src.t = "string"
       THEN [heap EXCEPT ![e]._tryGetAt = MkFn("stringGet", e, 0, 0, 0, ""),
                         ![e]._canSeek = TRUE]
  ELSE IF heap[e]._src.t = "array"
       THEN [heap EXCEPT ![e]._tryGetAt = MkFn("arrayGet", e, 0, 0, 0, ""),
                         ![e]._canSeek = TRUE]
  ELSE IF HasNumericLength(heap[e]._src)
       THEN [heap EXCEPT ![e]._tryGetAt = MkFn("lengthGet", e, 0, 0, 0, ""),
                         ![e]._canSeek = TRUE]
  ELSE [heap EXCEPT ![e]._tryGetAt = MkFn("scanGet", e, 0, 0, 0, ""),
                    ![e]._canSeek = FALSE]

\* _ensureInternalTryGetAt(enumerable): the heap after the call
RECURSIVE EnsureInternalTryGetAt(_, _)
EnsureInternalTryGetAt(heap, e) ==
  IF heap[e]._tryGetAt.k # "null" THEN heap
  ELSE IF heap[e]._src.t = "enumerable"
       THEN LET innerEnumerable == heap[e]._src.self
                h1 == EnsureInternalTryGetAt(heap, innerEnumerable)
            IN [h1 EXCEPT ![e]._tryGetAt = MkFn("innerGet", innerEnumerable, 0, 0, 0, ""),
                          ![e]._canSeek = h1[innerEnumerable]._canSeek]
  ELSE IF heap[e]._src.t = "string"
       THEN [heap EXCEPT ![e]._tryGetAt = MkFn("stringGet", e, 0, 0, 0, ""),
                         ![e]._canSeek = TRUE]
  ELSE IF heap[e]._src.t = "array"
       THEN [heap EXCEPT ![e]._tryGetAt = MkFn("arrayGet", e, 0, 0, 0, ""),
                         ![e]._canSeek = TRUE]
  ELSE IF HasNumericLength(heap[e]._src)
       THEN [heap EXCEPT ![e]._tryGetAt = MkFn("lengthGet", e, 0, 0, 0, ""),
                         ![e]._canSeek = TRUE]
  ELSE [heap EXCEPT ![e]._tryGetAt = MkFn("scanGet", e, 0, 0, 0, ""),
                    ![e]._canSeek = FALSE]

(* ---------------------------------------------------------------------- *)
(* Calling the closures.  A result is the heap after the call, the value   *)
(* (ok = FALSE: null was returned), the events of the iterations the call  *)
(* ran, and the error it threw ("" when it returned).                      *)
(* ---------------------------------------------------------------------- *)
Ret(hp, ok, v, ev, err) == [hp |-> hp, ok |-> ok, v |-> v, ev |-> ev, err |-> err]

\* for (const item of enumerable) x++
ScanCount(heap, e) ==
  Let(Iterate(heap, e), LAMBDA T :
    IF Throws(T) THEN Ret(heap, FALSE, 0, T, "TypeError")
    ELSE Ret(heap, TRUE, Len(Yields(T)), T, ""))

\* for (const item of enumerable) { if (index === x) return {value: item}; x++ } return null
ScanGet(heap, e, index) ==
  Let(IF index >= 0 THEN UpToYield(Iterate(heap, e), index + 1) ELSE Iterate(heap, e), LAMBDA P :
    IF Throws(P) THEN Ret(heap, FALSE, 0, P, "TypeError")
    ELSE IF index >= 0 /\ Len(Yields(P)) = index + 1
         THEN Ret(heap, TRUE, Yields(P)[index + 1].v, P, "")
    ELSE Ret(heap, FALSE, 0, P, ""))

RECURSIVE CallCount(_, _), Count(_, _)

\* this._count(), fn being the closure stored in the field
CallCount(heap, fn) ==
  CASE fn.k = "zero" -> Ret(heap, TRUE, 0, <<>>, "")
    [] fn.k = "constCount" -> Ret(heap, TRUE, fn.nr, <<>>, "")
    [] fn.k = "srcLength" -> Ret(heap, TRUE, Len(heap[fn.self]._src.items), <<>>, "")
    [] fn.k = "scanCount" -> ScanCount(heap, fn.self)
    [] fn.k = "innerCount" -> CallCount(heap, heap[fn.self]._count)
    [] fn.k = "takeCount" ->
         Let(Count(heap, fn.self), LAMBDA r :
           IF r.err # "" THEN r ELSE Ret(r.hp, TRUE, Min(fn.nr, r.v), r.ev, ""))
    [] fn.k = "skipCount" ->
         Let(Count(heap, fn.self), LAMBDA r :
           IF r.err # "" THEN r ELSE Ret(r.hp, TRUE, Max(0, r.v - fn.nr), r.ev, ""))
    [] fn.k = "concatCount" ->
         Let(Count(heap, fn.self), LAMBDA r1 :
           IF r1.err # "" THEN r1
           ELSE Let(Count(r1.hp, fn.other), LAMBDA r2 :
                  IF r2.err # "" THEN Ret(r2.hp, FALSE, 0, r1.ev \o r2.ev, r2.err)
                  ELSE Ret(r2.hp, TRUE, r1.v + r2.v, r1.ev \o r2.ev, "")))

\* count()
Count(heap, e) ==
  Let(EnsureInternalCount(heap, e), LAMBDA h1 : CallCount(h1, h1[e]._count))

RECURSIVE CallTryGetAt(_, _, _)

\* this._tryGetAt(index), fn being the closure stored in the field
CallTryGetAt(heap, fn, index) ==
  LET items == heap[fn.self]._src.items
      null == Ret(heap, FALSE, 0, <<>>, "")
  IN
  CASE fn.k = "emptyGet" -> null
    [] fn.k = "rangeGet" ->
         IF index >= 0 /\ index < fn.nr THEN Ret(heap, TRUE, fn.start + index, <<>>, "") ELSE null
    [] fn.k = "repeatGet" ->
         IF index >= 0 /\ index < fn.nr THEN Ret(heap, TRUE, fn.start, <<>>, "") ELSE null
    [] fn.k = "stringGet" ->
         \* charAt of a position outside the string is ''
         IF index < Len(items)
         THEN Ret(heap, TRUE, IF index >= 0 THEN items[index + 1] ELSE EmptyStr, <<>>, "")
         ELSE null
    [] fn.k = "arrayGet" ->
         IF index >= 0 /\ index < Len(items) THEN Ret(heap, TRUE, items[index + 1], <<>>, "") ELSE null
    [] fn.k = "lengthGet" ->
         \* index < src.length && typeof src[index] !== 'undefined'
         IF index >= 0 /\ index < Len(items) /\ heap[fn.self]._src.t = "typed"
         THEN Ret(heap, TRUE, items[index + 1], <<>>, "")
         ELSE null
    [] fn.k = "scanGet" -> ScanGet(heap, fn.self, index)
    [] fn.k = "innerGet" -> CallTryGetAt(heap, heap[fn.self]._tryGetAt, index)
    [] fn.k = "selectGet" ->
         Let(CallTryGetAt(heap, heap[fn.self]._tryGetAt, index), LAMBDA res :
           IF ~res.ok THEN res
           ELSE Ret(res.hp, TRUE, CallSelector(fn.fn, res.v, Undefined), Append(res.ev, EvC), ""))
    [] fn.k = "skipGet" -> CallTryGetAt(heap, heap[fn.self]._tryGetAt, index + fn.nr)
    [] fn.k = "takeGet" ->
         IF index >= fn.nr THEN null ELSE CallTryGetAt(heap, heap[fn.self]._tryGetAt, index)
    [] fn.k = "concatGet" ->
         Let(CallTryGetAt(heap, heap[fn.self]._tryGetAt, index), LAMBDA r1 :
           IF r1.ok \/ r1.err # "" THEN r1
           ELSE Let(Count(r1.hp, fn.self), LAMBDA c :
                  IF c.err # "" THEN Ret(c.hp, FALSE, 0, r1.ev \o c.ev, c.err)
                  ELSE Let(CallTryGetAt(c.hp, c.hp[fn.other]._tryGetAt, index - c.v), LAMBDA r2 :
                         Ret(r2.hp, r2.ok, r2.v, r1.ev \o c.ev \o r2.ev, r2.err))))

(* ---------------------------------------------------------------------- *)
(* The operations that build an Enumerable.  A result is the heap after    *)
(* the call, the Enumerable returned (r, 0 when the call threw) and the    *)
(* error thrown.                                                           *)
(* ---------------------------------------------------------------------- *)
Built(hp, r) == [hp |-> hp, r |-> r, err |-> ""]
Refused(hp, err) == [hp |-> hp, r |-> 0, err |-> err]

\* new Enumerable(src)
New(heap, src) ==
  IF ~EnsureIterableOk(src) THEN Refused(heap, "NotIterable")
  ELSE Built(Append(heap, NewEnumerable(src)), Len(heap) + 1)

\* Enumerable.from(iterable) as it would be if it wrapped an Enumerable in a new one
From_AlwaysWraps(heap, iterable) == New(heap, iterable)

\* Enumerable.from(iterable)
From(heap, iterable) ==
  IF iterable.t = "enumerable" THEN Built(heap, iterable.self)
  ELSE New(heap, iterable)

\* Enumerable.empty()
Empty(heap) ==
  LET result == Len(heap) + 1
      h1 == Append(heap, NewEnumerable(RawSrc("array", <<>>)))
  IN Built([h1 EXCEPT ![result]._count = MkFn("zero", result, 0, 0, 0, ""),
                      ![result]._tryGetAt = MkFn("emptyGet", result, 0, 0, 0, ""),
                      ![result]._canSeek = TRUE], result)

\* Enumerable.range(start, count) as it would be if its indexer counted from start + 1
Range_LookupFromNext(heap, start, count) ==
  LET result == Len(heap) + 1
      h1 == Append(heap, NewEnumerable(MkSrc("rangeGen", <<>>, 0, 0, count, start, "", FALSE)))
  IN Built([h1 EXCEPT ![result]._count = MkFn("constCount", result, 0, count, 0, ""),
                      ![result]._tryGetAt = MkFn("rangeGet", result, 0, count, start + 1, ""),
                      ![result]._canSeek = TRUE], result)

\* Enumerable.range(start, count)
Range(heap, start, count) ==
  LET result == Len(heap) + 1
      h1 == Append(heap, NewEnumerable(MkSrc("rangeGen", <<>>, 0, 0, count, start, "", FALSE)))
  IN Built([h1 EXCEPT ![result]._count = MkFn("constCount", result, 0, count, 0, ""),
                      ![result]._tryGetAt = MkFn("rangeGet", result, 0, count, start, ""),
                      ![result]._canSeek = TRUE], result)

\* Enumerable.repeat(item, count)
Repeat(heap, item, count) ==
  LET result == Len(heap) + 1
      h1 == Append(heap, NewEnumerable(MkSrc("repeatGen", <<>>, 0, 0, count, item, "", FALSE)))
  IN Built([h1 EXCEPT ![result]._count = MkFn("constCount", result, 0, count, 0, ""),
                      ![result]._tryGetAt = MkFn("repeatGet", result, 0, count, item, ""),
                      ![result]._canSeek = TRUE], result)

\* concat(iterable) as it would be if the result could seek when either operand can
Concat_SeekIfEither(heap, self, iterable) ==
  IF ~EnsureIterableOk(iterable) THEN Refused(heap, "NotIterable")
  ELSE
  LET result == Len(heap) + 1
      isEnum == iterable.t = "enumerable"
      other == IF isEnum THEN iterable.self ELSE Len(heap) + 2
      gen == MkSrc("concatGen", <<>>, self, other, 0, 0, "", ~isEnum)
      h1 == Append(heap, NewEnumerable(gen))
      h2 == From(h1, iterable).hp
      h3 == [h2 EXCEPT ![result]._count = MkFn("concatCount", self, other, 0, 0, "")]
      h4 == EnsureInternalTryGetAt(h3, self)
      h5 == EnsureInternalTryGetAt(h4, other)
      h6 == [h5 EXCEPT ![result]._canSeek = h5[self]._canSeek \/ h5[other]._canSeek]
  IN Built(IF h6[self]._canSeek
           THEN [h6 EXCEPT ![result]._tryGetAt = MkFn("concatGet", self, other, 0, 0, "")]
           ELSE h6, result)

\* concat(iterable)
Concat(heap, self, iterable) ==
  IF ~EnsureIterableOk(iterable) THEN Refused(heap, "NotIterable")
  ELSE
  LET result == Len(heap) + 1
      isEnum == iterable.t = "enumerable"
      other == IF isEnum THEN iterable.self ELSE Len(heap) + 2
      gen == MkSrc("concatGen", <<>>, self, other, 0, 0, "", ~isEnum)
      h1 == Append(heap, NewEnumerable(gen))
      h2 == From(h1, iterable).hp
      h3 == [h2 EXCEPT ![result]._count = MkFn("concatCount", self, other, 0, 0, "")]
      h4 == EnsureInternalTryGetAt(h3, self)
      h5 == EnsureInternalTryGetAt(h4, other)
      h6 == [h5 EXCEPT ![result]._canSeek = h5[self]._canSeek /\ h5[other]._canSeek]
  IN Built(IF h6[self]._canSeek
           THEN [h6 EXCEPT ![result]._tryGetAt = MkFn("concatGet", self, other, 0, 0, "")]
           ELSE h6, result)

\* distinct(equalityComparer)
Distinct(heap, self, equalityComparer) ==
  New(heap, GenSrc("distinctGen", self, 0, equalityComparer))

\* select(selector) as it would be if its indexer returned the parent's value unmapped
Select_Unmapped(heap, self, selector) ==
  IF ~EnsureFunctionOk(selector) THEN Refused(heap, "NotFunction")
  ELSE
  LET result == Len(heap) + 1
      h1 == Append(heap, NewEnumerable(GenSrc("selectGen", self, 0, selector)))
      h2 == EnsureInternalCount(h1, self)
      h3 == [h2 EXCEPT ![result]._count = h2[self]._count]
      h4 == EnsureInternalTryGetAt(h3, self)
  IN Built([h4 EXCEPT ![result]._canSeek = h4[self]._canSeek,
                      ![result]._tryGetAt = MkFn("innerGet", self, 0, 0, 0, "")], result)

\* select(selector) as it would be if it counted its parent by iterating it at once
Select_Eager(heap, self, selector) ==
  IF ~EnsureFunctionOk(selector) THEN Refused(heap, "NotFunction")
  ELSE
  LET result == Len(heap) + 1
      h1 == Append(heap, NewEnumerable(GenSrc("selectGen", self, 0, selector)))
      h2 == [EnsureInternalCount(h1, self) EXCEPT ![self]._wasIterated = TRUE]
      h3 == [h2 EXCEPT ![result]._count = h2[self]._count]
      h4 == EnsureInternalTryGetAt(h3, self)
  IN Built([h4 EXCEPT ![result]._canSeek = h4[self]._canSeek,
                      ![result]._tryGetAt = MkFn("selectGet", self, 0, 0, 0, selector)], result)

\* select(selector)
Select(heap, self, selector) ==
  IF ~EnsureFunctionOk(selector) THEN Refused(heap, "NotFunction")
  ELSE
  LET result == Len(heap) + 1
      h1 == Append(heap, NewEnumerable(GenSrc("selectGen", self, 0, selector)))
      h2 == EnsureInternalCount(h1, self)
      h3 == [h2 EXCEPT ![result]._count = h2[self]._count]
      h4 == EnsureInternalTryGetAt(h3, self)
  IN Built([h4 EXCEPT ![result]._canSeek = h4[self]._canSeek,
                      ![result]._tryGetAt = MkFn("selectGet", self, 0, 0, 0, selector)], result)

\* skip(nr)
Skip(heap, self, nr) ==
  LET result == Len(heap) + 1
      h1 == Append(heap, NewEnumerable(GenSrc("skipGen", self, nr, "")))
      h2 == [h1 EXCEPT ![result]._count = MkFn("skipCount", self, 0, nr, 0, "")]
      h3 == EnsureInternalTryGetAt(h2, self)
  IN Built([h3 EXCEPT ![result]._canSeek = h3[self]._canSeek,
                      ![result]._tryGetAt = MkFn("skipGet", self, 0, nr, 0, "")], result)

\* take(nr)
Take(heap, self, nr) ==
  LET result == Len(heap) + 1
      h1 == Append(heap, NewEnumerable(GenSrc("takeGen", self, nr, "")))
      h2 == [h1 EXCEPT ![result]._count = MkFn("takeCount", self, 0, nr, 0, "")]
      h3 == EnsureInternalTryGetAt(h2, self)
      h4 == [h3 EXCEPT ![result]._canSeek = h3[self]._canSeek]
  IN Built(IF h4[self]._canSeek
           THEN [h4 EXCEPT ![result]._tryGetAt = MkFn("takeGet", self, 0, nr, 0, "")]
           ELSE h4, result)

\* where(condition) as it would be if it marked its parent as able to seek
Where_ClaimsParentSeek(heap, self, condition) ==
  IF ~EnsureFunctionOk(condition) THEN Refused(heap, "NotFunction")
  ELSE New([heap EXCEPT ![self]._canSeek = TRUE], GenSrc("whereGen", self, 0, condition))

\* where(condition)
Where(heap, self, condition) ==
  IF ~EnsureFunctionOk(condition) THEN Refused(heap, "NotFunction")
  ELSE New(heap, GenSrc("whereGen", self, 0, condition))

\* splice(start, howmany, ...newItems)
Splice(heap, self, start, howmany, newItems) ==
  Let(Take(heap, self, start), LAMBDA taken :
    Let(Concat(taken.hp, taken.r, RawSrc("array", newItems)), LAMBDA withItems :
      Let(Skip(withItems.hp, self, start + howmany), LAMBDA skipped :
        Concat(skipped.hp, withItems.r, MkSrc("enumerable", <<>>, skipped.r, 0, 0, 0, "", FALSE)))))

(* ---------------------------------------------------------------------- *)
(* The operations that consume an Enumerable.  A result is the heap after  *)
(* the call, the value returned (v, or the array arr), the events of the   *)
(* iterations the call ran and the error thrown ("" when it returned).     *)
(* ---------------------------------------------------------------------- *)
Out(hp, v, arr, ev, err) == [hp |-> hp, v |-> v, arr |-> arr, ev |-> ev, err |-> err]

\* get length
Length(heap, e) ==
  Let(EnsureInternalTryGetAt(heap, e), LAMBDA h1 :
    IF ~h1[e]._canSeek THEN Out(h1, 0, <<>>, <<>>, "EagerLength")
    ELSE Let(Count(h1, e), LAMBDA c : Out(c.hp, c.v, <<>>, c.ev, c.err)))

\* count() as an operation of the client
CountOp(heap, e) ==
  Let(Count(heap, e), LAMBDA c : Out(c.hp, c.v, <<>>, c.ev, c.err))

\* elementAt(index)
ElementAt(heap, e, index) ==
  Let(EnsureInternalTryGetAt(heap, e), LAMBDA h1 :
    Let(CallTryGetAt(h1, h1[e]._tryGetAt, index), LAMBDA result :
      IF result.err # "" THEN Out(result.hp, 0, <<>>, result.ev, result.err)
      ELSE IF ~result.ok THEN Out(result.hp, 0, <<>>, result.ev, "IndexOutOfRange")
      ELSE Out(result.hp, result.v, <<>>, result.ev, "")))

\* elementAtOrDefault(index)
ElementAtOrDefault(heap, e, index) ==
  Let(EnsureInternalTryGetAt(heap, e), LAMBDA h1 :
    Let(CallTryGetAt(h1, h1[e]._tryGetAt, index), LAMBDA result :
      IF result.err # "" THEN Out(result.hp, 0, <<>>, result.ev, result.err)
      ELSE IF ~result.ok THEN Out(result.hp, Undefined, <<>>, result.ev, "")
      ELSE Out(result.hp, result.v, <<>>, result.ev, "")))

\* first()
First(heap, e) == ElementAt(heap, e, 0)

\* firstOrDefault()
FirstOrDefault(heap, e) == ElementAtOrDefault(heap, e, 0)

\* last()
Last(heap, e) ==
  Let(EnsureInternalTryGetAt(heap, e), LAMBDA h1 :
    IF ~h1[e]._canSeek
    THEN Let(Iterate(h1, e), LAMBDA T :
           IF Throws(T) THEN Out(h1, 0, <<>>, T, "TypeError")
           ELSE IF Yields(T) # <<>> THEN Out(h1, Yields(T)[Len(Yields(T))].v, <<>>, T, "")
           ELSE Out(h1, 0, <<>>, T, "Empty"))
    ELSE Let(Count(h1, e), LAMBDA count :
           IF count.err # "" THEN Out(count.hp, 0, <<>>, count.ev, count.err)
           ELSE Let(ElementAt(count.hp, e, count.v - 1), LAMBDA at :
                  Out(at.hp, at.v, <<>>, count.ev \o at.ev, at.err))))

\* lastOrDefault() as it would be if it iterated whether or not this can seek
LastOrDefault_AlwaysScans(heap, e) ==
  Let(EnsureInternalTryGetAt(heap, e), LAMBDA h1 :
    Let(Iterate(h1, e), LAMBDA T :
      IF Throws(T) THEN Out(h1, 0, <<>>, T, "TypeError")
      ELSE IF Yields(T) # <<>> THEN Out(h1, Yields(T)[Len(Yields(T))].v, <<>>, T, "")
      ELSE Out(h1, Undefined, <<>>, T, "")))

\* lastOrDefault()
LastOrDefault(heap, e) ==
  Let(EnsureInternalTryGetAt(heap, e), LAMBDA h1 :
    IF ~h1[e]._canSeek
    THEN Let(Iterate(h1, e), LAMBDA T :
           IF Throws(T) THEN Out(h1, 0, <<>>, T, "TypeError")
           ELSE IF Yields(T) # <<>> THEN Out(h1, Yields(T)[Len(Yields(T))].v, <<>>, T, "")
           ELSE Out(h1, Undefined, <<>>, T, ""))
    ELSE Let(Count(h1, e), LAMBDA count :
           IF count.err # "" THEN Out(count.hp, 0, <<>>, count.ev, count.err)
           ELSE Let(ElementAtOrDefault(count.hp, e, count.v - 1), LAMBDA at :
                  Out(at.hp, at.v, <<>>, count.ev \o at.ev, at.err))))

\* the loop of toArray over a seekable Enumerable: arr[i] = this._tryGetAt(i)?.value
RECURSIVE FillArray(_, _, _, _)
FillArray(heap, e, i, length) ==
  IF i >= length THEN Out(heap, 0, <<>>, <<>>, "")
  ELSE Let(CallTryGetAt(heap, heap[e]._tryGetAt, i), LAMBDA a :
         IF a.err # "" THEN Out(a.hp, 0, <<>>, a.ev, a.err)
         ELSE Let(FillArray(a.hp, e, i + 1, length), LAMBDA rest :
                Out(rest.hp, 0, <<IF a.ok THEN a.v ELSE Undefined>> \o rest.arr,
                    a.ev \o rest.ev, rest.err)))

\* toArray()
ToArray(heap, e) ==
  Let(EnsureInternalTryGetAt(heap, e), LAMBDA h1 :
    IF h1[e]._canSeek
    THEN Let(Count(h1, e), LAMBDA count :
           IF count.err # "" THEN Out(count.hp, 0, <<>>, count.ev, count.err)
           \* new Array(n) throws a RangeError when n is negative
           ELSE IF count.v < 0 THEN Out(count.hp, 0, <<>>, count.ev, "RangeError")
           ELSE Let(FillArray(count.hp, e, 0, count.v), LAMBDA filled :
                  Out(filled.hp, 0, IF filled.err = "" THEN filled.arr ELSE <<>>,
                      count.ev \o filled.ev, filled.err)))
    ELSE Let(Iterate(h1, e), LAMBDA T :
           IF Throws(T) THEN Out(h1, 0, <<>>, T, "TypeError")
           ELSE Out(h1, 0, YieldValues(T), T, "")))

\* the loop of stats as it would be if the first item stayed both minimum and maximum
StatsLoop_KeepsFirst(items, comparer, agg, called) ==
  IF items = <<>> THEN [agg |-> agg, called |-> called]
  ELSE [agg |-> <<agg[1] + Len(items), Head(items), Head(items)>>, called |-> called]

\* the loop of stats: agg is <<count, min, max>>, called tells that comparer was called
RECURSIVE StatsLoop(_, _, _, _)
StatsLoop(items, comparer, agg, called) ==
  IF items = <<>> THEN [agg |-> agg, called |-> called]
  ELSE LET item == Head(items)
           min == IF agg[2] = Undefined \/ CallComparer(comparer, item, agg[2]) < 0
                  THEN item ELSE agg[2]
           max == IF agg[3] = Undefined \/ CallComparer(comparer, item, agg[3]) > 0
                  THEN item ELSE agg[3]
       IN StatsLoop(Tail(items), comparer, <<agg[1] + 1, min, max>>,
                    called \/ agg[2] # Undefined \/ agg[3] # Undefined)

\* stats(comparer): the result is returned as the array <<count, min, max>>
Stats(heap, e, comparer) ==
  IF comparer \notin {"none", FalsyNotFn} /\ ~EnsureFunctionOk(comparer)
  THEN Out(heap, 0, <<>>, <<>>, "NotFunction")
  ELSE Let(Iterate(heap, e), LAMBDA T :
         IF Throws(T) THEN Out(heap, 0, <<>>, T, "TypeError")
         \* a falsy comparer is replaced by _defaultComparer
         ELSE Let(IF comparer \in {"none", FalsyNotFn} THEN "none" ELSE comparer, LAMBDA cmp :
                Let(StatsLoop(YieldValues(T), cmp, <<0, Undefined, Undefined>>, FALSE), LAMBDA loop :
                  Out(heap, 0, loop.agg,
                      T \o (IF cmp # "none" /\ loop.called THEN <<EvC>> ELSE <<>>), ""))))

\* min(comparer)
MinOp(heap, e, comparer) ==
  Let(Stats(heap, e, comparer), LAMBDA stats :
    IF stats.err # "" THEN stats
    ELSE Out(stats.hp, IF stats.arr[1] = 0 THEN Undefined ELSE stats.arr[2], <<>>, stats.ev, ""))

\* max(comparer)
MaxOp(heap, e, comparer) ==
  Let(Stats(heap, e, comparer), LAMBDA stats :
    IF stats.err # "" THEN stats
    ELSE Out(stats.hp, IF stats.arr[1] = 0 THEN Undefined ELSE stats.arr[3], <<>>, stats.ev, ""))

\* _toNumber(obj) as it would be if it returned obj whatever its type
ToNumber_Uncoerced(obj) == obj

\* _toNumber(obj)
ToNumber(obj) == IF IsNumber(obj) THEN obj ELSE NaN

\* a + b of two numbers in JavaScript
JsAdd(a, b) == IF a = NaN \/ b = NaN THEN NaN ELSE a + b

\* the loop of sumAndCount: agg is <<count, sum>>
RECURSIVE SumLoop(_, _)
SumLoop(items, agg) ==
  IF items = <<>> THEN agg
  ELSE SumLoop(Tail(items),
               <<agg[1] + 1,
                 IF agg[1] = 0 THEN ToNumber(Head(items)) ELSE JsAdd(agg[2], ToNumber(Head(items)))>>)

\* sumAndCount(): the result is returned as the array <<count, sum>>
SumAndCount(heap, e) ==
  Let(Iterate(heap, e), LAMBDA T :
    IF Throws(T) THEN Out(heap, 0, <<>>, T, "TypeError")
    ELSE Out(heap, 0, SumLoop(YieldValues(T), <<0, 0>>), T, ""))

\* sum()
Sum(heap, e) ==
  Let(SumAndCount(heap, e), LAMBDA stats :
    IF stats.err # "" THEN stats
    ELSE Out(stats.hp, IF stats.arr[1] = 0 THEN Undefined ELSE stats.arr[2], <<>>, stats.ev, ""))

\* toList(): the heap after the call, the Enumerable returned (r), the events, the error
Listed(hp, r, ev, err) == [hp |-> hp, r |-> r, ev |-> ev, err |-> err]

\* toList() as it would be if it copied the items whether or not this can seek
ToList_AlwaysCopies(heap, e) ==
  Let(ToArray(heap, e), LAMBDA arr :
    IF arr.err # "" THEN Listed(arr.hp, 0, arr.ev, arr.err)
    ELSE Let(From(arr.hp, RawSrc("array", arr.arr)), LAMBDA list :
           Listed(list.hp, list.r, arr.ev, list.err)))

ToList(heap, e) ==
  Let(EnsureInternalTryGetAt(heap, e), LAMBDA h1 :
    IF h1[e]._canSeek THEN Listed(h1, e, <<>>, "")
    ELSE Let(ToArray(h1, e), LAMBDA arr :
           IF arr.err # "" THEN Listed(arr.hp, 0, arr.ev, arr.err)
           ELSE Let(From(arr.hp, RawSrc("array", arr.arr)), LAMBDA list :
                  Listed(list.hp, list.r, arr.ev, list.err))))

\* [Symbol.iterator] as it would be if iterating an Enumerable used up the items of its source
MarkIterated_Exhausts(heap, ev) ==
  [h \in 1..Len(heap) |->
     IF \E i \in 1..Len(ev) : ev[i] = EvS(h)
     THEN [heap[h] EXCEPT !._wasIterated = TRUE, !._src.items = <<>>]
     ELSE heap[h]]

\* the effect of the events on the _wasIterated fields: [Symbol.iterator]
RECURSIVE MarkIterated(_, _)
MarkIterated(heap, ev) ==
  IF ev = <<>> THEN heap
  ELSE IF Head(ev).t = "S"
       THEN MarkIterated([heap EXCEPT ![Head(ev).h]._wasIterated = TRUE], Tail(ev))
       ELSE MarkIterated(heap, Tail(ev))

\* a user supplied function was called during the events
AnyCall(ev) == \E i \in 1..Len(ev) : ev[i].t = "C"

(* ---------------------------------------------------------------------- *)
(* Iteration sessions, advanced one item at a time.  A session is a        *)
(* generator object: the frame of a generator function with its local      *)
(* variables (pos counts the items produced, mapped, taken or skipped so   *)
(* far, or is the stage of concat; values are the items distinct has seen; *)
(* afterYield tells that take is suspended at its yield) and inner, the    *)
(* iterator of its for-of loop, empty until the body has started the loop; *)
(* pulled counts the items the for-of loops of the body have received.     *)
(* A source of kind "endless" is the generator function                    *)
(* function*(){ let i = 0; while (true) yield i++; }.                      *)
(* ---------------------------------------------------------------------- *)
MkFrame(t, h, pos, afterYield, values, inner) ==
  [t |-> t, h |-> h, pos |-> pos, afterYield |-> afterYield, values |-> values,
   inner |-> inner, pulled |-> 0]

\* a frame whose body has not started
NewFrame(t, h) == MkFrame(t, h, 0, FALSE, <<>>, <<>>)

\* the result of next(): the heap, the frame, what happened ("Y" a value was yielded,
\* "D" done, "X" thrown) and the value
Stepped(hp, f, k, v) == [hp |-> hp, f |-> f, k |-> k, v |-> v]

\* the sources iterated by position
ItemKinds == {"array", "string", "genfn", "typed", "linked"}

RECURSIVE GetIterator(_, _), Generator(_, _)

\* this._generator(): a new generator object; over an Enumerable it is the bound
\* [Symbol.iterator] of that Enumerable
Generator(heap, e) ==
  IF heap[e]._src.t = "enumerable" THEN GetIterator(heap, heap[e]._src.self)
  ELSE [hp |-> heap, f |-> NewFrame(heap[e]._src.t, e)]

\* e[Symbol.iterator](): sets _wasIterated and returns this._generator()
GetIterator(heap, e) == Generator([heap EXCEPT ![e]._wasIterated = TRUE], e)

\* the iterator of the for-of loop of a generator over self: started when the loop is
\* reached, kept afterwards
LoopIterator(heap, f) ==
  IF f.inner = <<>> THEN GetIterator(heap, heap[f.h]._src.self)
  ELSE [hp |-> heap, f |-> f.inner[1]]

RECURSIVE Advance(_, _)

\* next() on the generator object f
Advance(heap, f) ==
  LET src == heap[f.h]._src
      done == Stepped(heap, [f EXCEPT !.t = "done", !.inner = <<>>], "D", 0)
  IN
  CASE f.t = "done" -> Stepped(heap, f, "D", 0)
    [] f.t \in ItemKinds ->
         IF f.pos < Len(src.items)
         THEN Stepped(heap, [f EXCEPT !.pos = f.pos + 1], "Y", src.items[f.pos + 1])
         ELSE done
    [] f.t = "endless" -> Stepped(heap, [f EXCEPT !.pos = f.pos + 1], "Y", f.pos)
    [] f.t = "rangeGen" ->
         IF f.pos < src.nr
         THEN Stepped(heap, [f EXCEPT !.pos = f.pos + 1], "Y", src.start + f.pos)
         ELSE done
    [] f.t = "repeatGen" ->
         IF f.pos < src.nr
         THEN Stepped(heap, [f EXCEPT !.pos = f.pos + 1], "Y", src.start)
         ELSE done
    \* take: nrLeft is nr - pos; after a yield nrLeft-- and the test of nrLeft <= 0 come first
    [] f.t = "takeGen" /\ f.afterYield /\ src.nr - f.pos <= 0 -> done
    [] f.t = "concatGen" /\ f.pos = 1 ->
         Let(Advance(heap, f.inner[1]), LAMBDA a :
           IF a.k = "Y"
           THEN Stepped(a.hp, [f EXCEPT !.inner = <<a.f>>, !.pulled = f.pulled + 1], "Y", a.v)
           ELSE Stepped(a.hp, [f EXCEPT !.t = "done", !.inner = <<>>], a.k, 0))
    [] OTHER ->
         Let(LoopIterator(heap, f), LAMBDA it :
         Let(Advance(it.hp, it.f), LAMBDA a :
         Let([f EXCEPT !.inner = <<a.f>>, !.afterYield = FALSE,
                       !.pulled = IF a.k = "Y" THEN f.pulled + 1 ELSE f.pulled], LAMBDA g :
           IF a.k = "X" THEN Stepped(a.hp, [f EXCEPT !.t = "done", !.inner = <<>>], "X", 0)
           ELSE IF a.k = "D" /\ f.t = "concatGen"
           \* for (const item of Enumerable.from(iterable)): iterable itself when it is an
           \* Enumerable, a new Enumerable over the raw source otherwise
           THEN Let(IF src.raw
                    THEN [hp |-> a.hp, f |-> NewFrame(a.hp[src.other]._src.t, src.other)]
                    ELSE GetIterator(a.hp, src.other), LAMBDA second :
                  Advance(second.hp, [g EXCEPT !.pos = 1, !.inner = <<second.f>>]))
           ELSE IF a.k = "D" THEN Stepped(a.hp, [f EXCEPT !.t = "done", !.inner = <<>>], "D", 0)
           ELSE
           CASE f.t = "selectGen" ->
                  Stepped(a.hp, [g EXCEPT !.pos = f.pos + 1], "Y", CallSelector(src.fn, a.v, f.pos))
             [] f.t = "whereGen" ->
                  IF CallFilter(src.fn, a.v, f.pos)
                  THEN Stepped(a.hp, [g EXCEPT !.pos = f.pos + 1], "Y", a.v)
                  ELSE Advance(a.hp, [g EXCEPT !.pos = f.pos + 1])
             [] f.t = "takeGen" ->
                  IF src.nr - f.pos > 0
                  THEN Stepped(a.hp, [g EXCEPT !.pos = f.pos + 1, !.afterYield = TRUE], "Y", a.v)
                  \* break
                  ELSE Stepped(a.hp, [g EXCEPT !.t = "done", !.inner = <<>>], "D", 0)
             [] f.t = "skipGen" ->
                  IF src.nr - f.pos > 0 THEN Advance(a.hp, [g EXCEPT !.pos = f.pos + 1])
                  ELSE Stepped(a.hp, g, "Y", a.v)
             [] f.t = "distinctGen" /\ src.fn = "default" ->
                  IF \E i \in 1..Len(f.values) : f.values[i] = a.v
                  THEN Advance(a.hp, g)
                  ELSE Stepped(a.hp, [g EXCEPT !.values = Append(f.values, a.v)], "Y", a.v)
             [] f.t = "distinctGen" ->
                  Let(CompareLoop(src.fn, a.v, f.values, 1), LAMBDA c :
                    IF c.threw THEN Stepped(a.hp, [g EXCEPT !.t = "done", !.inner = <<>>], "X", 0)
                    ELSE IF c.unique
                    THEN Stepped(a.hp, [g EXCEPT !.values = Append(f.values, a.v)], "Y", a.v)
                    ELSE Advance(a.hp, [g EXCEPT !.values = Append(f.values, a.v)]))
             [] f.t = "concatGen" -> Stepped(a.hp, g, "Y", a.v))))

\* the scan of the fallback indexer, x items in: the value at index or null (ok = FALSE),
\* and the number of items the loop has received
RECURSIVE ScanSteps(_, _, _, _)
ScanSteps(heap, f, index, x) ==
  Let(Advance(heap, f), LAMBDA a :
    IF a.k = "X" THEN [hp |-> a.hp, ok |-> FALSE, v |-> 0, err |-> "TypeError", pulled |-> x]
    ELSE IF a.k = "D" THEN [hp |-> a.hp, ok |-> FALSE, v |-> 0, err |-> "", pulled |-> x]
    ELSE IF index = x THEN [hp |-> a.hp, ok |-> TRUE, v |-> a.v, err |-> "", pulled |-> x + 1]
    ELSE ScanSteps(a.hp, a.f, index, x + 1))

\* an Enumerable whose positional lookup is the scan
Scanning(heap, e) == EnsureInternalTryGetAt(heap, e)[e]._tryGetAt.k = "scanGet"

\* elementAt(index) on an Enumerable whose positional lookup is the scan, item by item
ElementAtScanning(heap, e, index) ==
  Let(GetIterator(EnsureInternalTryGetAt(heap, e), e), LAMBDA it :
  Let(ScanSteps(it.hp, it.f, index, 0), LAMBDA res :
    IF res.err = "" /\ ~res.ok THEN [res EXCEPT !.err = "IndexOutOfRange"] ELSE res))

(* ---------------------------------------------------------------------- *)
(* The state machine: a client program calls the API                       *)
(* ---------------------------------------------------------------------- *)
VARIABLES
  heap,    \* the Enumerable instances created so far
  last,    \* the last call of the client and what it returned or threw
  called,  \* a user supplied function (selector, filter, comparer) has been called
  left,    \* the number of calls the client program still makes
  iterators \* the iteration sessions the client holds: the Enumerable, the generator
            \* object, the items it has yielded (out), and whether it has ended

vars == <<heap, last, called, left, iterators>>

Handles == 1..Len(heap)

\* the raw values a client passes as a source: arrays, strings, generator functions,
\* and two values that are not iterable (a number and null)
Arrays == SeqsUpTo(Vals, MaxLen)
Strings == SeqsUpTo(Chars, MaxLen)
RawSources ==
  {RawSrc("array", a) : a \in Arrays} \cup {RawSrc("string", a) : a \in Strings}
  \cup {RawSrc("genfn", a) : a \in Arrays} \cup {RawSrc("number", <<>>), RawSrc("null", <<>>)}

EnumSrc(h) == MkSrc("enumerable", <<>>, h, 0, 0, 0, "", FALSE)

Call(op, h, idx, fn) ==
  [op |-> op, h |-> h, idx |-> idx, fn |-> fn, r |-> 0, err |-> "", v |-> 0, arr |-> <<>>,
   sessions |-> 0]

NoCall == Call("", 0, 0, "")

\* no Enumerable exists yet; the client program makes at most n calls
Start(n) ==
  /\ heap = <<>>
  /\ last = NoCall
  /\ called = FALSE
  /\ left = n
  /\ iterators = <<>>

Init == Start(MaxOps)

\* a call that builds an Enumerable (or throws)
Building(call, res) ==
  /\ left > 0
  /\ Len(res.hp) <= MaxHeap
  /\ left' = left - 1
  /\ heap' = res.hp
  /\ last' = [call EXCEPT !.r = res.r, !.err = res.err]
  /\ UNCHANGED <<called, iterators>>

\* the number of iterations started during the events
Sessions(ev) == Len(SelectSeq(ev, LAMBDA x : x.t = "S"))

\* a call that consumes an Enumerable
Consuming(call, out) ==
  /\ left > 0
  /\ left' = left - 1
  /\ heap' = MarkIterated(out.hp, out.ev)
  /\ last' = [call EXCEPT !.err = out.err, !.v = out.v, !.arr = out.arr,
                          !.sessions = Sessions(out.ev)]
  /\ called' = (called \/ AnyCall(out.ev))
  /\ UNCHANGED iterators

\* a call that consumes an Enumerable and returns one (toList)
Materializing(call, res) ==
  /\ left > 0
  /\ Len(res.hp) <= MaxHeap
  /\ left' = left - 1
  /\ heap' = MarkIterated(res.hp, res.ev)
  /\ last' = [call EXCEPT !.r = res.r, !.err = res.err, !.sessions = Sessions(res.ev)]
  /\ called' = (called \/ AnyCall(res.ev))
  /\ UNCHANGED iterators

\* the calls of the client, one definition per operation of the API
DoFrom(src) == Building(Call("from", 0, 0, src.t), From(heap, src))
DoFromEnumerable(h) == Building(Call("from", h, 0, "enumerable"), From(heap, EnumSrc(h)))
DoNew(h) == Building(Call("new", h, 0, "enumerable"), New(heap, EnumSrc(h)))
DoEmpty == Building(Call("empty", 0, 0, ""), Empty(heap))
DoRange(start, count) == Building(Call("range", 0, count, ""), Range(heap, start, count))
DoRepeat(item, count) == Building(Call("repeat", 0, count, ""), Repeat(heap, item, count))
DoConcatRaw(h, src) == Building(Call("concat", h, 0, src.t), Concat(heap, h, src))
DoConcat(h, o) == Building(Call("concat", h, o, "enumerable"), Concat(heap, h, EnumSrc(o)))
DoDistinct(h, eq) == Building(Call("distinct", h, 0, eq), Distinct(heap, h, eq))
DoSelect(h, fn) == Building(Call("select", h, 0, fn), Select(heap, h, fn))
DoWhere(h, fn) == Building(Call("where", h, 0, fn), Where(heap, h, fn))
DoSkip(h, nr) == Building(Call("skip", h, nr, ""), Skip(heap, h, nr))
DoTake(h, nr) == Building(Call("take", h, nr, ""), Take(heap, h, nr))
DoSplice(h, start, howmany, newItems) ==
  Building([Call("splice", h, start, "") EXCEPT !.v = howmany, !.arr = newItems],
           Splice(heap, h, start, howmany, newItems))

DoLength(h) == Consuming(Call("length", h, 0, ""), Length(heap, h))
DoCount(h) == Consuming(Call("count", h, 0, ""), CountOp(heap, h))
DoElementAt(h, i) == Consuming(Call("elementAt", h, i, ""), ElementAt(heap, h, i))
DoElementAtOrDefault(h, i) ==
  Consuming(Call("elementAtOrDefault", h, i, ""), ElementAtOrDefault(heap, h, i))
DoFirst(h) == Consuming(Call("first", h, 0, ""), First(heap, h))
DoFirstOrDefault(h) == Consuming(Call("firstOrDefault", h, 0, ""), FirstOrDefault(heap, h))
DoLast(h) == Consuming(Call("last", h, 0, ""), Last(heap, h))
DoLastOrDefault(h) == Consuming(Call("lastOrDefault", h, 0, ""), LastOrDefault(heap, h))
DoToArray(h) == Consuming(Call("toArray", h, 0, ""), ToArray(heap, h))
DoStats(h, cmp) == Consuming(Call("stats", h, 0, cmp), Stats(heap, h, cmp))
DoMin(h, cmp) == Consuming(Call("min", h, 0, cmp), MinOp(heap, h, cmp))
DoMax(h, cmp) == Consuming(Call("max", h, 0, cmp), MaxOp(heap, h, cmp))
DoSum(h) == Consuming(Call("sum", h, 0, ""), Sum(heap, h))
DoSumAndCount(h) == Consuming(Call("sumAndCount", h, 0, ""), SumAndCount(heap, h))
DoToList(h) == Materializing(Call("toList", h, 0, ""), ToList(heap, h))

\* the arguments tried: functions with one value that is not callable, the items of splice
SelectorArgs == Selectors \cup {NotFn}
FilterArgs == Filters \cup {NotFn}
EqualityArgs == Equalities \cup {NotFn}
ComparerArgs == Comparers \cup {NotFn, FalsyNotFn}
NewItems == {<<>>, <<MaxVal + 1>>}

FromRaw == \E src \in RawSources : DoFrom(src)
FromEnumerable == \E h \in Handles : DoFromEnumerable(h)
NewFromEnumerable == \E h \in Handles : DoNew(h)
EmptyAct == DoEmpty
RangeAct == \E count \in Ints : DoRange(MaxVal, count)
RepeatAct == \E count \in Ints : DoRepeat(MaxVal, count)
ConcatRaw == \E h \in Handles, src \in RawSources : DoConcatRaw(h, src)
ConcatEnumerable == \E h \in Handles, o \in Handles : DoConcat(h, o)
DistinctAct == \E h \in Handles, eq \in EqualityArgs : DoDistinct(h, eq)
SelectAct == \E h \in Handles, fn \in SelectorArgs : DoSelect(h, fn)
WhereAct == \E h \in Handles, fn \in FilterArgs : DoWhere(h, fn)
SkipAct == \E h \in Handles, nr \in Ints : DoSkip(h, nr)
TakeAct == \E h \in Handles, nr \in Ints : DoTake(h, nr)
SpliceAct ==
  \E h \in Handles, start \in Ints, howmany \in Ints, newItems \in NewItems :
    DoSplice(h, start, howmany, newItems)

LengthAct == \E h \in Handles : DoLength(h)
CountAct == \E h \in Handles : DoCount(h)
ElementAtAct == \E h \in Handles, i \in Ints : DoElementAt(h, i)
ElementAtOrDefaultAct == \E h \in Handles, i \in Ints : DoElementAtOrDefault(h, i)
FirstAct == \E h \in Handles : DoFirst(h)
FirstOrDefaultAct == \E h \in Handles : DoFirstOrDefault(h)
LastAct == \E h \in Handles : DoLast(h)
LastOrDefaultAct == \E h \in Handles : DoLastOrDefault(h)
ToArrayAct == \E h \in Handles : DoToArray(h)
StatsAct == \E h \in Handles, cmp \in ComparerArgs : DoStats(h, cmp)
SumAct == \E h \in Handles : DoSum(h)
SumAndCountAct == \E h \in Handles : DoSumAndCount(h)
ToListAct == \E h \in Handles : DoToList(h)

Next ==
  \/ FromRaw \/ FromEnumerable \/ NewFromEnumerable \/ EmptyAct \/ RangeAct \/ RepeatAct
  \/ ConcatRaw \/ ConcatEnumerable \/ DistinctAct \/ SelectAct \/ WhereAct \/ SkipAct \/ TakeAct
  \/ SpliceAct
  \/ LengthAct \/ CountAct \/ ElementAtAct \/ ElementAtOrDefaultAct
  \/ FirstAct \/ FirstOrDefaultAct \/ LastAct \/ LastOrDefaultAct \/ ToArrayAct \/ StatsAct

\* every client program of at most MaxOps calls and MaxHeap instances
Spec == Init /\ [][Next]_vars

\* the client programs that only build: at most MaxBuild calls, splice included
InitBuild == Start(MaxBuild)

NextBuild ==
  \/ FromRaw \/ FromEnumerable \/ NewFromEnumerable \/ EmptyAct \/ RangeAct \/ RepeatAct
  \/ ConcatRaw \/ ConcatEnumerable \/ DistinctAct \/ SelectAct \/ WhereAct \/ SkipAct \/ TakeAct
  \/ SpliceAct

SpecBuild == InitBuild /\ [][NextBuild]_vars

\* the partition programs: H is a source or is derived from one in at most MaxDerive
\* operations; then t = H.take(n), t.count() or s = H.skip(n), c = t.concat(s), c.toArray()
InitPartition == Start(MaxChain)

ChainEnd == last.r # 0 /\ last.r = Len(heap)
PartRoot == heap = <<>> /\ (FromRaw \/ RangeAct)
PartDerive ==
  /\ ChainEnd /\ Len(heap) <= MaxDerive
  /\ \/ \E fn \in Filters : DoWhere(last.r, fn)
     \/ \E fn \in Selectors : DoSelect(last.r, fn)
     \/ \E eq \in EqualityArgs : DoDistinct(last.r, eq)
     \/ \E nr \in Ints : DoSkip(last.r, nr)
PartTake == ChainEnd /\ Len(heap) <= MaxDerive + 1 /\ \E nr \in Ints : DoTake(last.r, nr)
PartCount == ChainEnd /\ last.op = "take" /\ DoCount(last.r)
PartSkip == ChainEnd /\ last.op = "take" /\ DoSkip(last.h, last.idx)
PartConcat ==
  /\ ChainEnd /\ last.op = "skip" /\ last.r > 1
  /\ heap[last.r - 1]._src.t = "takeGen"
  /\ heap[last.r - 1]._src.self = last.h /\ heap[last.r - 1]._src.nr = last.idx
  /\ DoConcat(last.r - 1, last.r)
PartToArray == ChainEnd /\ last.op = "concat" /\ DoToArray(last.r)

NextPartition ==
  \/ PartRoot \/ PartDerive \/ PartTake \/ PartCount \/ PartSkip \/ PartConcat \/ PartToArray

SpecPartition == InitPartition /\ [][NextPartition]_vars

\* the reading programs: a source or factory, at most one operation on it, reading calls
\* that resolve or iterate (count, elementAt, toArray, sum, toList) and one last reading
\* call of any kind; MaxReads + 2 calls in all
InitRead == Start(MaxReads + 2)

\* the sources of the reading programs are empty or of length MaxLen
\* and the arrays [3, 1, 2] and ['a', -1, '']
StatsExample == <<3, 1, 2>>
MixedExample == <<CharBase + 1, -1, EmptyStr>>
\* the sources with a numeric length that are neither strings nor arrays: a typed array and
\* an iterable object with a length, both holding 1, 2, ..., MaxLen
LengthSources == {RawSrc(t, [i \in 1..MaxLen |-> i]) : t \in {"typed", "linked"}}
ReadSources ==
  {src \in RawSources : Len(src.items) \in {0, MaxLen}}
  \cup {RawSrc("array", StatsExample), RawSrc("array", MixedExample)}
  \cup LengthSources

ReadRoot ==
  /\ heap = <<>>
  /\ \/ \E src \in ReadSources : DoFrom(src)
     \/ EmptyAct
     \/ \E start \in {0, MaxVal}, count \in {0, MaxLen} : DoRange(start, count)
     \/ \E item \in {MaxVal, CharBase + 1}, count \in {0, MaxLen} : DoRepeat(item, count)
     \* range(5, 3) and repeat('a', 3)
     \/ DoRange(5, 3) \/ DoRepeat(CharBase + 1, 3)
ReadDerive ==
  /\ Len(heap) = 1
  /\ \/ \E fn \in {"isOne", "firstIndex"} : DoWhere(1, fn)
     \/ \E fn \in Selectors : DoSelect(1, fn)
     \/ \E eq \in EqualityArgs : DoDistinct(1, eq)
     \/ \E nr \in {-1, 1} : DoSkip(1, nr)
     \/ \E nr \in {-1, 1} : DoTake(1, nr)
     \/ \E t \in {"array", "genfn"} : DoConcatRaw(1, RawSrc(t, <<MaxVal>>))
     \/ DoConcat(1, 1)
     \/ DoSplice(1, 1, 1, <<MaxVal + 1>>)
     \/ DoFromEnumerable(1)
     \/ DoNew(1)
ReadFirst ==
  /\ heap # <<>> /\ left > 1
  /\ \/ CountAct
     \/ \E h \in Handles : DoElementAt(h, 0)
     \/ ToArrayAct \/ SumAct \/ ToListAct
ReadLast ==
  /\ heap # <<>> /\ left = 1
  /\ \/ LengthAct \/ CountAct
     \/ \E h \in Handles, i \in -1..1 : DoElementAt(h, i)
     \/ \E h \in Handles, i \in -1..1 : DoElementAtOrDefault(h, i)
     \/ FirstAct \/ FirstOrDefaultAct \/ LastAct \/ LastOrDefaultAct \/ ToArrayAct
     \/ \E h \in Handles, cmp \in Comparers : DoStats(h, cmp)
     \/ \E h \in Handles, cmp \in Comparers : DoMin(h, cmp)
     \/ \E h \in Handles, cmp \in Comparers : DoMax(h, cmp)
     \/ SumAct \/ SumAndCountAct \/ ToListAct

NextRead == ReadRoot \/ ReadDerive \/ ReadFirst \/ ReadLast

SpecRead == InitRead /\ [][NextRead]_vars

\* the iterating programs: a source of MaxLen items, Handles derived from it, then at most
\* MaxSessions iteration sessions advanced one item at a time in any order, with toArray
\* calls in between
InitSessions == Start(MaxBuild + 1)

SessionSources == {src \in RawSources : Len(src.items) = MaxLen}

\* a variant in which an Enumerable keeps one generator object and hands it out again
StartSession_SharedIterator(h) ==
  /\ Len(iterators) < MaxSessions
  /\ Let(GetIterator(heap, h), LAMBDA it :
       /\ heap' = it.hp
       /\ iterators' = Append(iterators,
            [h |-> h, out |-> <<>>, done |-> FALSE,
             f |-> IF \E s \in 1..Len(iterators) : iterators[s].h = h
                   THEN iterators[CHOOSE s \in 1..Len(iterators) : iterators[s].h = h].f
                   ELSE it.f]))
  /\ last' = Call("iterator", h, 0, "")
  /\ UNCHANGED <<called, left>>

\* const it = h[Symbol.iterator]()
StartSession(h) ==
  /\ Len(iterators) < MaxSessions
  /\ Let(GetIterator(heap, h), LAMBDA it :
       /\ heap' = it.hp
       /\ iterators' = Append(iterators, [h |-> h, f |-> it.f, out |-> <<>>, done |-> FALSE]))
  /\ last' = Call("iterator", h, 0, "")
  /\ UNCHANGED <<called, left>>

\* it.next() on session s
NextSession(s) ==
  /\ ~iterators[s].done
  /\ Let(Advance(heap, iterators[s].f), LAMBDA a :
       /\ heap' = a.hp
       /\ iterators' = [iterators EXCEPT ![s].f = a.f,
                                         ![s].out = IF a.k = "Y" THEN Append(@, a.v) ELSE @,
                                         ![s].done = a.k # "Y"]
       /\ last' = [Call("next", iterators[s].h, s, "") EXCEPT
                    !.v = a.v, !.err = IF a.k = "X" THEN "TypeError" ELSE ""])
  /\ UNCHANGED <<called, left>>

SessionRoot == heap = <<>> /\ \E src \in SessionSources : DoFrom(src)
SessionDerive ==
  /\ heap # <<>> /\ iterators = <<>>
  /\ \/ DoSelect(1, "index") \/ DoWhere(1, "firstIndex")
     \/ DoTake(1, 1) \/ DoSkip(1, 1)
     \/ \E eq \in Equalities : DoDistinct(1, eq)
     \/ DoConcat(1, 1) \/ DoConcatRaw(1, RawSrc("genfn", <<MaxVal>>))
     \/ DoNew(1)
SessionStart == \E h \in Handles : StartSession(h)
SessionNext == \E s \in 1..Len(iterators) : NextSession(s)
SessionToArray == iterators # <<>> /\ ToArrayAct

NextSessions == SessionRoot \/ SessionDerive \/ SessionStart \/ SessionNext \/ SessionToArray

SpecSessions == InitSessions /\ [][NextSessions]_vars

\* the programs that stop early: a source, endless or of MaxLen items, take(n) over it and
\* over its takes, iteration sessions over the takes advanced one item at a time, and
\* elementAt on the Handles that scan
InitEarly == Start(MaxOps)

EarlySources == SessionSources \cup {RawSrc("endless", <<>>)}

DoScanElementAt(h, i) ==
  /\ left > 0
  /\ Scanning(heap, h)
  /\ left' = left - 1
  /\ Let(ElementAtScanning(heap, h, i), LAMBDA res :
       /\ heap' = res.hp
       /\ last' = [Call("elementAt", h, i, "") EXCEPT !.v = res.v, !.err = res.err,
                                                       !.sessions = 1])
  /\ UNCHANGED <<called, iterators>>

EarlyRoot == heap = <<>> /\ \E src \in EarlySources : DoFrom(src)
EarlyTake == iterators = <<>> /\ \E h \in Handles, nr \in 0..MaxLen : DoTake(h, nr)
EarlyStart == \E h \in Handles : heap[h]._src.t = "takeGen" /\ StartSession(h)
EarlyElementAt == \E h \in Handles, i \in 0..MaxLen : DoScanElementAt(h, i)

NextEarly == EarlyRoot \/ EarlyTake \/ EarlyStart \/ SessionNext \/ EarlyElementAt

SpecEarly == InitEarly /\ [][NextEarly]_vars

(* ---------------------------------------------------------------------- *)
(* What the claims speak about                                             *)
(* ---------------------------------------------------------------------- *)
\* the resolved seek flag of an Enumerable
Seekable(h) == EnsureInternalTryGetAt(heap, h)[h]._canSeek

\* the elements of h, in the order a for-of loop over h meets them
Iterated(h) == YieldValues(Run(heap, h))

\* every function argument in the chains of the heap is callable and every count given to
\* range and repeat is at least 0: the cases the claims about results speak about
ValidArguments ==
  \A h \in Handles :
    /\ heap[h]._src.t = "distinctGen" => EnsureFunctionOk(heap[h]._src.fn)
    /\ heap[h]._src.t \in {"rangeGen", "repeatGen"} => heap[h]._src.nr >= 0

\* no take or skip of the heap was given a negative number
NonNegativeArguments ==
  \A h \in Handles : heap[h]._src.t \in {"takeGen", "skipGen"} => heap[h]._src.nr >= 0

\* what a call returned or threw, without its effects
Result(out) == [v |-> out.v, arr |-> out.arr, err |-> out.err]

\* Array.prototype.splice(start, deleteCount, ...items) applied to a copy of arr: the copy after
NativeSplice(arr, start, deleteCount, items) ==
  LET len == Len(arr)
      actualStart == IF start < 0 THEN Max(len + start, 0) ELSE Min(start, len)
      actualDeleteCount == Min(Max(deleteCount, 0), len - actualStart)
  IN SubSeq(arr, 1, actualStart) \o items \o SubSeq(arr, actualStart + actualDeleteCount + 1, len)

(* ---------------------------------------------------------------------- *)
(* The claims                                                              *)
(* ---------------------------------------------------------------------- *)

\* C1: for every Enumerable, however it was built, toArray() succeeds, count() is not
\* negative and toArray().length = count().
C1_ToArrayLengthIsCount ==
  ValidArguments =>
    \A h \in Handles :
      LET arr == ToArray(heap, h)
          count == CountOp(heap, h)
      IN arr.err = "" /\ count.err = "" /\ count.v >= 0 /\ Len(arr.arr) = count.v

\* C2: splice(start, howmany, ...items).toArray() is the array that the native splice leaves
\* of a copy of toArray(), for every start and howmany, negative ones included.
C2_SpliceIsNativeSplice ==
  (ValidArguments /\ last.op = "splice" /\ last.r # 0 /\ ToArray(heap, last.h).err = "") =>
    LET spliced == ToArray(heap, last.r)
    IN /\ spliced.err = ""
       /\ spliced.arr = NativeSplice(ToArray(heap, last.h).arr, last.idx, last.v, last.arr)

\* C3: for every Enumerable and every integer i: outside [0, count()) the lookup finds no
\* value, elementAtOrDefault(i) is undefined and elementAt(i) throws 'Index out of range';
\* inside, both return the element at position i.
C3_ElementAtRange ==
  ValidArguments =>
    \A h \in Handles :
      LET count == CountOp(heap, h).v
          elements == Iterated(h)
      IN \A i \in -2..(Max(count, Len(elements)) + 1) :
           LET at == ElementAt(heap, h, i)
               orDefault == ElementAtOrDefault(heap, h, i)
           IN IF i >= 0 /\ i < count
              THEN /\ at.err = "" /\ orDefault.err = ""
                   /\ at.v = orDefault.v
                   /\ i < Len(elements) /\ at.v = elements[i + 1]
              ELSE /\ at.err = "IndexOutOfRange"
                   /\ orDefault.err = "" /\ orDefault.v = Undefined

\* C4: A.concat(B).count() = A.count() + B.count(); elementAt(A.count() + j) of the
\* concatenation is B.elementAt(j) for j in [0, B.count()), and elementAt(i) is
\* A.elementAt(i) for i in [0, A.count()).
C4_ConcatCountAndElementAt ==
  ValidArguments =>
    \A c \in Handles :
      heap[c]._src.t = "concatGen" =>
        LET A == heap[c]._src.self
            B == heap[c]._src.other
            countA == CountOp(heap, A).v
            countB == CountOp(heap, B).v
        IN /\ CountOp(heap, c).v = countA + countB
           /\ \A j \in 0..(countB - 1) :
                Result(ElementAt(heap, c, countA + j)) = Result(ElementAt(heap, B, j))
           /\ \A i \in 0..(countA - 1) :
                Result(ElementAt(heap, c, i)) = Result(ElementAt(heap, A, i))

\* C6: the length property throws exactly when the Enumerable is not seekable, and then
\* without iterating anything; when it is seekable length is count(); on an Enumerable
\* that is not seekable count() succeeds and is the number of elements.
C6_StrictLength ==
  ValidArguments =>
    \A h \in Handles :
      LET length == Length(heap, h)
          count == CountOp(heap, h)
      IN /\ (length.err = "EagerLength") <=> ~Seekable(h)
         /\ length.err # "" => length.ev = <<>>
         /\ Seekable(h) => Result(length) = Result(count)
         /\ ~Seekable(h) => (count.err = "" /\ count.v = Len(Iterated(h)))

\* C7: on every Enumerable whose count() is 0, firstOrDefault() and lastOrDefault() return
\* undefined and do not throw, and first() and last() throw.
C7_EmptyAccessors ==
  (ValidArguments /\ NonNegativeArguments) =>
    \A h \in Handles :
      (CountOp(heap, h).err = "" /\ CountOp(heap, h).v = 0) =>
        /\ Result(FirstOrDefault(heap, h)) = [v |-> Undefined, arr |-> <<>>, err |-> ""]
        /\ Result(LastOrDefault(heap, h)) = [v |-> Undefined, arr |-> <<>>, err |-> ""]
        /\ First(heap, h).err # ""
        /\ Last(heap, h).err # ""

\* C10: a value that is not iterable given to from or concat, and a value that is not
\* callable given to select, where, stats or distinct, makes that call throw and return no
\* Enumerable; no error of this kind first appears during a later iteration.
C10_ViolationsRaisedAtCall ==
  /\ (last.op \in {"from", "concat"} /\ last.fn \in {"number", "null"}) =>
       (last.err = "NotIterable" /\ last.r = 0)
  /\ (last.op \in {"select", "where", "stats", "distinct"} /\ last.fn = NotFn) =>
       (last.err = "NotFunction" /\ last.r = 0)
  /\ last.err # "TypeError"

\* c is t.concat(s) with t = H.take(n) and s = H.skip(n) for the same H and n
IsPartition(c) ==
  /\ heap[c]._src.t = "concatGen" /\ ~heap[c]._src.raw
  /\ heap[heap[c]._src.self]._src.t = "takeGen"
  /\ heap[heap[c]._src.other]._src.t = "skipGen"
  /\ heap[heap[c]._src.self]._src.self = heap[heap[c]._src.other]._src.self
  /\ heap[heap[c]._src.self]._src.nr = heap[heap[c]._src.other]._src.nr

PartitionOf(c) == heap[heap[c]._src.self]._src.self

\* C5: H.take(n).count() = min(n, H.count()) and H.take(n).concat(H.skip(n)).toArray()
\* is H.toArray() (the same array, or the same error), for every H and every integer n.
C5_TakeSkipPartition ==
  /\ \A t \in Handles :
       heap[t]._src.t = "takeGen" =>
         LET count == CountOp(heap, heap[t]._src.self)
         IN Result(CountOp(heap, t)) =
              [v |-> IF count.err = "" THEN Min(heap[t]._src.nr, count.v) ELSE 0,
               arr |-> <<>>, err |-> count.err]
  /\ \A c \in Handles :
       IsPartition(c) => Result(ToArray(heap, c)) = Result(ToArray(heap, PartitionOf(c)))
  /\ (last.op = "toArray" /\ IsPartition(last.h)) =>
       LET whole == ToArray(heap, PartitionOf(last.h))
       IN last.arr = whole.arr /\ last.err = whole.err
  /\ (last.op = "count" /\ last.err = "" /\ heap[last.h]._src.t = "takeGen") =>
       last.v = Min(heap[last.h]._src.nr, CountOp(heap, heap[last.h]._src.self).v)

\* C8: once resolved, the result of select, take and skip is seekable iff its parent is,
\* the result of concat iff both operands are, and the result of where and distinct never.
C8_SeekPropagation ==
  \A h \in Handles :
    LET src == heap[h]._src
    IN /\ src.t \in {"selectGen", "takeGen", "skipGen"} => (Seekable(h) <=> Seekable(src.self))
       /\ src.t = "concatGen" => (Seekable(h) <=> (Seekable(src.self) /\ Seekable(src.other)))
       /\ src.t \in {"whereGen", "distinctGen"} => ~Seekable(h)

\* C8 happens: a seekable Enumerable was concatenated with one that is not
C8_Witness ==
  /\ last.op = "concat" /\ last.r # 0
  /\ Seekable(heap[last.r]._src.self) /\ ~Seekable(heap[last.r]._src.other)
  /\ ~Seekable(last.r)

\* C9: after calls that only build (from, empty, range, repeat, select, where, take, skip,
\* concat, distinct, splice) no Enumerable has been iterated and no user supplied function
\* has been called.
C9_BuildingDoesNotIterate ==
  /\ ~called
  /\ \A h \in Handles : ~heap[h]._wasIterated

\* C9 happens: splice built its chain of five over a generator function of MaxLen items
C9_Witness ==
  /\ last.op = "splice" /\ last.r # 0
  /\ heap[last.h]._src.t = "genfn" /\ Len(heap[last.h]._src.items) = MaxLen
  /\ Len(heap) = last.h + 5

\* the positional lookup of h at index: this._tryGetAt(index) once it is resolved
Lookup(h, index) ==
  Let(EnsureInternalTryGetAt(heap, h), LAMBDA h1 : CallTryGetAt(h1, h1[h]._tryGetAt, index))

\* C11: P.select(f) has the count of P, and its positional lookup at i is absent exactly
\* when the lookup of P at i is absent and is otherwise f applied to the element of P at i.
C11_SelectMapsLookup ==
  \A h \in Handles :
    heap[h]._src.t = "selectGen" =>
      LET P == heap[h]._src.self
          f == heap[h]._src.fn
      IN /\ Result(CountOp(heap, h)) = Result(CountOp(heap, P))
         /\ \A i \in Ints :
              /\ Lookup(h, i).ok = Lookup(P, i).ok
              /\ Lookup(h, i).err = Lookup(P, i).err
              /\ Lookup(h, i).ok => Lookup(h, i).v = CallSelector(f, Lookup(P, i).v, Undefined)

\* C11 happens: elementAt returned the double of an element of the parent of a select
C11_Witness ==
  /\ last.op = "elementAt" /\ last.err = "" /\ last.idx = 1
  /\ heap[last.h]._src.t = "selectGen" /\ heap[last.h]._src.fn = "double"
  /\ IsNumber(last.v) /\ last.v = 2 * Lookup(heap[last.h]._src.self, 1).v

\* a and b are the same value ("same" as a Set has it, NaN included), or equal under
\* a plain equality function (===)
SameUnder(eq, a, b) == IF eq = "default" THEN a = b ELSE StrictEquals(a, b)

\* the elements of items[i..] that are not the same, under eq, as any element before them
RECURSIVE FirstOccurrences(_, _, _)
FirstOccurrences(items, i, eq) ==
  IF i > Len(items) THEN <<>>
  ELSE (IF \E j \in 1..(i - 1) : SameUnder(eq, items[i], items[j]) THEN <<>> ELSE <<items[i]>>)
       \o FirstOccurrences(items, i + 1, eq)

\* C12: distinct() yields, in source order, the first occurrence of every value and nothing
\* else; distinct(eq) yields an element iff eq is false against every element before it in
\* the source; with eq the plain equality it yields what distinct() yields.
C12_DistinctFirstOccurrences ==
  \A h \in Handles :
    (heap[h]._src.t = "distinctGen" /\ heap[h]._src.fn \in Equalities
       /\ ~Throws(Run(heap, heap[h]._src.self))) =>
      LET source == Iterated(heap[h]._src.self)
      IN /\ Iterated(h) = FirstOccurrences(source, 1, heap[h]._src.fn)
         /\ Iterated(h) = FirstOccurrences(source, 1, "default")

\* the elements of h as a set, and h can be iterated to its end without a throw
Elements(h) == {Iterated(h)[i] : i \in 1..Len(Iterated(h))}
Iterable(h) == ~Throws(Run(heap, h))

\* the arithmetic sum of a sequence of numbers
RECURSIVE Total(_)
Total(items) == IF items = <<>> THEN 0 ELSE Head(items) + Total(Tail(items))

\* what a call returned, as a value
Returned(v) == [v |-> v, arr |-> <<>>, err |-> ""]

\* C13 as stated: sum, min and max of a sequence with a non-number are NaN, stats has NaN for
\* min and max, nothing throws, and sum, min and max of an empty sequence are undefined.
C13_AggregatesCoerce ==
  \A h \in Handles : Iterable(h) =>
    /\ Iterated(h) = <<>> =>
         /\ Result(Sum(heap, h)) = Returned(Undefined)
         /\ Result(MinOp(heap, h, "none")) = Returned(Undefined)
         /\ Result(MaxOp(heap, h, "none")) = Returned(Undefined)
    /\ (\E x \in Elements(h) : ~IsNumber(x)) =>
         /\ Result(Sum(heap, h)) = Returned(NaN)
         /\ Result(MinOp(heap, h, "none")) = Returned(NaN)
         /\ Result(MaxOp(heap, h, "none")) = Returned(NaN)
         /\ Stats(heap, h, "none").err = ""
         /\ Stats(heap, h, "none").arr[2] = NaN /\ Stats(heap, h, "none").arr[3] = NaN

\* C13 amended: sum coerces every non-number to NaN (the sum of a sequence with a non-number
\* is NaN, of numbers their arithmetic sum); stats, min and max do not coerce, they return
\* elements of the sequence as they are; none throws; sum, min and max of an empty sequence
\* are undefined.
C13_SumCoercesMinMaxDoNot ==
  \A h \in Handles : Iterable(h) =>
    Let(Iterated(h), LAMBDA items :
    Let({items[i] : i \in 1..Len(items)}, LAMBDA elements :
    Let(SumAndCount(heap, h), LAMBDA both :
      /\ Result(Sum(heap, h)) =
           Returned(IF items = <<>> THEN Undefined
                    ELSE IF \E x \in elements : ~IsNumber(x) THEN NaN ELSE Total(items))
      /\ both.err = ""
      /\ both.arr[1] = Len(items)
      /\ items # <<>> => both.arr[2] = Sum(heap, h).v
      /\ \A cmp \in Comparers :
           Let(Stats(heap, h, cmp), LAMBDA stats :
           Let(MinOp(heap, h, cmp), LAMBDA min :
           Let(MaxOp(heap, h, cmp), LAMBDA max :
             /\ stats.err = "" /\ min.err = "" /\ max.err = ""
             /\ items = <<>> => min.v = Undefined /\ max.v = Undefined
             /\ items # <<>> =>
                  /\ min.v \in elements /\ max.v \in elements
                  /\ stats.arr[2] = min.v /\ stats.arr[3] = max.v))))))

\* C13 happens: sum() returned NaN over a sequence of numbers and one-character strings
C13_Witness ==
  /\ last.op = "sum" /\ last.err = "" /\ last.v = NaN
  /\ \E x \in Elements(last.h) : IsNumber(x)
  /\ \E x \in Elements(last.h) : IsChar(x)

\* the number of times a for-of loop was started on h in a run
SessionsOn(ev, h) == Len(SelectSeq(ev, LAMBDA x : x = EvS(h)))

\* C14 as stated: stats(comparer) iterates the Handle once and returns count = the number
\* of elements, min = an element not greater than any other and max = an element not smaller
\* than any other under the comparer (default: natural order); over [] it returns
\* {count: 0, min: undefined, max: undefined} and over [3, 1, 2] {count: 3, min: 1, max: 3}.
C14_StatsCountMinMax ==
  \A h \in Handles : Iterable(h) =>
    Let(Iterated(h), LAMBDA items :
    Let({items[i] : i \in 1..Len(items)}, LAMBDA elements :
      \A cmp \in Comparers :
        Let(Stats(heap, h, cmp), LAMBDA stats :
          /\ stats.err = ""
          /\ SessionsOn(stats.ev, h) = 1
          /\ stats.arr[1] = Len(items)
          /\ items = <<>> => stats.arr = <<0, Undefined, Undefined>>
          /\ items # <<>> =>
               /\ stats.arr[2] \in elements
               /\ stats.arr[3] \in elements
               /\ \A x \in elements :
                    /\ CallComparer(cmp, stats.arr[2], x) <= 0
                    /\ CallComparer(cmp, stats.arr[3], x) >= 0
          /\ (items = StatsExample /\ cmp = "none") => stats.arr = <<3, 1, 3>>)))

\* the comparer is a total preorder on the elements: "not greater than" is transitive
TotalPreorder(cmp, elements) ==
  \A x \in elements, y \in elements, z \in elements :
    (CallComparer(cmp, x, y) <= 0 /\ CallComparer(cmp, y, z) <= 0)
      => CallComparer(cmp, x, z) <= 0

\* C14 amended: stats(comparer) iterates the Handle once and returns count = the number of
\* elements and min, max = elements of the sequence; when the comparer is a total preorder on
\* the elements, min is not greater than any other and max is not smaller than any other;
\* over [] it returns {count: 0, min: undefined, max: undefined} and over [3, 1, 2]
\* {count: 3, min: 1, max: 3}.
C14_StatsUnderPreorder ==
  \A h \in Handles : Iterable(h) =>
    Let(Iterated(h), LAMBDA items :
    Let({items[i] : i \in 1..Len(items)}, LAMBDA elements :
      \A cmp \in Comparers :
        Let(Stats(heap, h, cmp), LAMBDA stats :
          /\ stats.err = ""
          /\ SessionsOn(stats.ev, h) = 1
          /\ stats.arr[1] = Len(items)
          /\ items = <<>> => stats.arr = <<0, Undefined, Undefined>>
          /\ items # <<>> => stats.arr[2] \in elements /\ stats.arr[3] \in elements
          /\ (items # <<>> /\ TotalPreorder(cmp, elements)) =>
               \A x \in elements :
                 /\ CallComparer(cmp, stats.arr[2], x) <= 0
                 /\ CallComparer(cmp, stats.arr[3], x) >= 0
          /\ (items = StatsExample /\ cmp = "none") => stats.arr = <<3, 1, 3>>)))

\* C14 happens: stats() was called on a Handle over [3, 1, 2] and returned <<3, 1, 3>>
C14_Witness ==
  /\ last.op = "stats" /\ last.err = "" /\ last.fn = "none"
  /\ Iterated(last.h) = StatsExample
  /\ last.arr = <<3, 1, 3>>

\* the Handles made by range, repeat and empty, and what they are to yield
IsRange(h) == heap[h]._src.t = "rangeGen"
IsRepeat(h) == heap[h]._src.t = "repeatGen"
IsEmpty(h) == heap[h]._count.k = "zero"
Generated(h) ==
  IF IsRange(h) THEN [i \in 1..heap[h]._src.nr |-> heap[h]._src.start + i - 1]
  ELSE IF IsRepeat(h) THEN [i \in 1..heap[h]._src.nr |-> heap[h]._src.start]
  ELSE <<>>

\* C15: for every start and every count >= 0, range(start, count) yields start, start + 1,
\* ..., start + count - 1 and repeat(item, count) yields item exactly count times (range(5, 3)
\* is [5, 6, 7], repeat('a', 3) is ['a', 'a', 'a']); both, and empty(), are seekable without
\* iteration, report count() = count (0 for empty), and their elementAt(i) is defined exactly
\* for 0 <= i < count and equals the i-th iterated element.
C15_GeneratedSequences ==
  \A h \in Handles :
    ((IsRange(h) \/ IsRepeat(h) \/ IsEmpty(h)) /\ heap[h]._src.nr >= 0) =>
      Let(Generated(h), LAMBDA items :
        /\ Iterated(h) = items
        /\ (IsRange(h) /\ heap[h]._src.start = 5 /\ heap[h]._src.nr = 3) =>
             Iterated(h) = <<5, 6, 7>>
        /\ (IsRepeat(h) /\ heap[h]._src.start = CharBase + 1 /\ heap[h]._src.nr = 3) =>
             Iterated(h) = <<CharBase + 1, CharBase + 1, CharBase + 1>>
        /\ heap[h]._canSeek
        /\ EnsureInternalTryGetAt(heap, h) = heap
        /\ Result(CountOp(heap, h)) = Returned(Len(items))
        /\ CountOp(heap, h).ev = <<>>
        /\ \A i \in -1..(Len(items) + 1) :
             Let(ElementAt(heap, h, i), LAMBDA at :
               /\ at.ev = <<>>
               /\ at.err = "" <=> (0 <= i /\ i < Len(items))
               /\ at.err = "" => at.v = Iterated(h)[i + 1]))

\* C15 happens: elementAt(1) of range(5, 3) returned 6
C15_Witness ==
  /\ last.op = "elementAt" /\ last.idx = 1 /\ last.err = "" /\ last.v = 6
  /\ IsRange(last.h) /\ Iterated(last.h) = <<5, 6, 7>>

\* C16: for every Handle H that can seek or whose iteration completes, H.toList() returns a
\* Handle that is seekable (strict length does not raise) and whose elements, in order, are
\* those of H; when H is already seekable the result is H itself and nothing is iterated,
\* otherwise H is iterated exactly once to materialize it.
C16_ToListMaterializes ==
  \A h \in Handles : (Seekable(h) \/ Iterable(h)) =>
    Let(ToList(heap, h), LAMBDA list :
      /\ list.err = ""
      /\ list.r \in 1..Len(list.hp)
      /\ EnsureInternalTryGetAt(list.hp, list.r)[list.r]._canSeek
      /\ Length(list.hp, list.r).err = ""
      /\ YieldValues(Run(list.hp, list.r)) = Iterated(h)
      /\ Seekable(h) => list.r = h /\ list.ev = <<>>
      /\ ~Seekable(h) => list.r # h /\ SessionsOn(list.ev, h) = 1)

\* C16 happens: toList() of a Handle that cannot seek returned a new Handle with the same
\* MaxLen elements after one iteration
C16_Witness ==
  /\ last.op = "toList" /\ last.err = "" /\ last.r # last.h /\ last.sessions = 1
  /\ Seekable(last.r)
  /\ Len(Iterated(last.h)) = MaxLen /\ Iterated(last.r) = Iterated(last.h)

\* C17: for any seekable Handle H and index i in [0, H.count()), H.elementAt(i) returns the
\* same value on every call, whatever other read operations (count, elementAt at other
\* indices, toArray, iteration, deriving new Handles) are performed on H in between: no call
\* of the client changes what elementAt(i) returns.
C17_ElementAtStable ==
  [][\A h \in Handles :
       Seekable(h) =>
         \A i \in 0..(CountOp(heap, h).v - 1) :
           Result(ElementAt(heap', h, i)) = Result(ElementAt(heap, h, i))]_vars

\* C17 happens: elementAt(i) returned the i-th element of a seekable Handle that had been
\* iterated by an earlier read
C17_Witness ==
  /\ last.op = "elementAt" /\ last.err = "" /\ left = 0
  /\ Seekable(last.h) /\ heap[last.h]._wasIterated
  /\ last.idx \in 0..(CountOp(heap, last.h).v - 1)
  /\ last.v = Iterated(last.h)[last.idx + 1]

\* C18: from applied to an existing Handle returns that very Handle, with no new Handle
\* created and none of its fields changed, so from(from(x)) is the same Handle as from(x) for
\* every valid source x.
C18_FromHandleIsIdentity ==
  [][/\ (last'.op = "from" /\ last'.fn = "enumerable") =>
          /\ last'.err = ""
          /\ last'.r = last'.h
          /\ heap' = heap
     /\ \A x \in RawSources : EnsureIterableOk(x) =>
          Let(From(heap, x), LAMBDA once : From(once.hp, EnumSrc(once.r)) = once)]_vars

\* C18 happens: from(x) made the only Handle and from(from(x)) returned it
C18_Witness ==
  /\ last.op = "from" /\ last.fn = "enumerable" /\ last.err = ""
  /\ last.r = last.h /\ Len(heap) = 1 /\ left = 0

\* the operations that derive a Handle from a parent
DeriveOps == {"select", "where", "take", "skip", "concat", "distinct", "splice"}

\* the Handles that d was derived from, directly or through other Handles
RECURSIVE AncestorsOf(_, _)
AncestorsOf(hp, d) ==
  LET parents == ({hp[d]._src.self, hp[d]._src.other} \cap (1..Len(hp))) \ {d}
  IN parents \cup UNION {AncestorsOf(hp, P) : P \in parents}

\* the parents concerned by a step: those of the Handle derived, or of the Handle consumed,
\* that existed before the step
ParentsInStep(hp, call) ==
  LET derived == IF call.op \in DeriveOps THEN call.r ELSE call.h
  IN IF derived \in 1..Len(hp) THEN AncestorsOf(hp, derived) \cap Handles ELSE {}

\* C19 as stated: deriving a Handle from a parent P with any operation (select, where, take,
\* skip, concat, distinct, splice), and then consuming the derived Handle, never changes any
\* field of P: P's source, producer, seekable flag, length function and elementAt function
\* are the same after as before.
C19_ParentUnchanged ==
  [][\A P \in ParentsInStep(heap', last') :
       /\ heap'[P]._src = heap[P]._src
       /\ heap'[P]._canSeek = heap[P]._canSeek
       /\ heap'[P]._count = heap[P]._count
       /\ heap'[P]._tryGetAt = heap[P]._tryGetAt]_vars

\* C19 amended: deriving a Handle from a parent P, and then consuming the derived Handle,
\* never changes P's source or producer, nor a capability of P that is already resolved; a
\* capability of P that is still unresolved stays so or becomes what P's own resolution
\* gives (its seekable flag and elementAt function, its length function).
C19_ParentOnlyResolved ==
  [][\A P \in ParentsInStep(heap', last') :
       /\ heap'[P]._src = heap[P]._src
       /\ heap[P]._tryGetAt.k # "null" =>
            /\ heap'[P]._tryGetAt = heap[P]._tryGetAt
            /\ heap'[P]._canSeek = heap[P]._canSeek
       /\ heap[P]._count.k # "null" => heap'[P]._count = heap[P]._count
       /\ heap'[P]._tryGetAt \in {heap[P]._tryGetAt, EnsureInternalTryGetAt(heap, P)[P]._tryGetAt}
       /\ heap'[P]._canSeek \in {heap[P]._canSeek, EnsureInternalTryGetAt(heap, P)[P]._canSeek}
       /\ heap'[P]._count \in {heap[P]._count, EnsureInternalCount(heap, P)[P]._count}]_vars

\* C19 happens: a Handle derived from a source was consumed, and the source, never read by
\* the client itself, has its capabilities resolved
C19_Witness ==
  /\ last.op = "toArray" /\ last.err = "" /\ left = MaxReads - 1
  /\ Len(heap) = 2 /\ last.h = 2 /\ AncestorsOf(heap, 2) = {1}
  /\ heap[1]._tryGetAt.k # "null" /\ heap[1]._count.k # "null" /\ heap[1]._canSeek

\* C20: capability resolution is memoized and stable: once a Handle's seek capability is
\* resolved (its elementAt function is installed) its seekable flag never changes again under
\* any later sequence of operations, and a second resolution of length or seek returns without
\* re-inspecting the source or replacing the installed function.
C20_ResolutionStable ==
  [][\A h \in Handles :
       /\ heap[h]._tryGetAt.k # "null" =>
            /\ heap'[h]._canSeek = heap[h]._canSeek
            /\ heap'[h]._tryGetAt = heap[h]._tryGetAt
            /\ EnsureInternalTryGetAt(heap, h) = heap
       /\ heap[h]._count.k # "null" =>
            /\ heap'[h]._count = heap[h]._count
            /\ EnsureInternalCount(heap, h) = heap
       /\ Let(EnsureInternalTryGetAt(heap, h), LAMBDA h1 : EnsureInternalTryGetAt(h1, h) = h1)
       /\ Let(EnsureInternalCount(heap, h), LAMBDA h1 : EnsureInternalCount(h1, h) = h1)]_vars

\* C20 happens: a Handle made by range, seekable from its construction over a generator
\* function, was read twice, the second time by iterating it, and is still seekable
C20_Witness ==
  /\ left = 0 /\ Len(heap) = 1 /\ last.op = "sum" /\ last.err = "" /\ last.h = 1
  /\ IsRange(1) /\ heap[1]._wasIterated
  /\ heap[1]._tryGetAt.k = "rangeGet" /\ heap[1]._canSeek

\* a call that completed without starting an iteration: its events hold no start of a for-of
\* loop, so that no _wasIterated field is set by it
NoIteration(out) ==
  /\ Sessions(out.ev) = 0
  /\ \A g \in Handles : MarkIterated(out.hp, out.ev)[g]._wasIterated = heap[g]._wasIterated

\* C21: in every reachable state, if a Handle's resolved seekable flag is true then count(),
\* length, elementAt(i), elementAtOrDefault(i), first(), last(), lastOrDefault() and toArray()
\* on it complete without iterating that Handle or any Handle or source it was derived from
\* (no _wasIterated flag is set by these calls).
C21_SeekableDoesNotIterate ==
  \A h \in Handles : Seekable(h) =>
    /\ NoIteration(CountOp(heap, h))
    /\ NoIteration(Length(heap, h))
    /\ NoIteration(First(heap, h))
    /\ NoIteration(Last(heap, h))
    /\ NoIteration(LastOrDefault(heap, h))
    /\ NoIteration(ToArray(heap, h))
    /\ \A i \in Ints :
         /\ NoIteration(ElementAt(heap, h, i))
         /\ NoIteration(ElementAtOrDefault(heap, h, i))

\* C21 happens: lastOrDefault() returned the last element of a seekable Handle derived from a
\* source, and nothing has been iterated
C21_Witness ==
  /\ last.op = "lastOrDefault" /\ last.err = "" /\ last.sessions = 0
  /\ Len(heap) >= 2 /\ last.h = 2 /\ Seekable(2) /\ AncestorsOf(heap, 2) # {}
  /\ Iterated(2) # <<>> /\ last.v = Iterated(2)[Len(Iterated(2))]
  /\ \A g \in Handles : ~heap[g]._wasIterated

\* C22: when the seek resolver meets a source that exposes a numeric length but is neither a
\* string nor an array, the Handle stays seekable only if indexing the source by position
\* really returns its elements; a source with a length that can only be scanned is resolved as
\* non-seekable, so that its toArray() and elementAt(i) still return the iterated elements.
C22_LengthSourceSeek ==
  \A h \in Handles :
    heap[h]._src \in LengthSources =>
      /\ Seekable(h) =>
           \A i \in 0..(Len(Iterated(h)) - 1) :
             Lookup(h, i).ok /\ Lookup(h, i).v = Iterated(h)[i + 1]
      /\ Result(ToArray(heap, h)) = [v |-> 0, arr |-> Iterated(h), err |-> ""]
      /\ \A i \in 0..(Len(Iterated(h)) - 1) :
           Result(ElementAt(heap, h, i)) = Returned(Iterated(h)[i + 1])

\* two calls end alike: both raise, or both return and return the same value
SameOutcome(a, b) ==
  /\ (a.err = "") <=> (b.err = "")
  /\ a.err = "" => a.v = b.v

\* last() or lastOrDefault() scanned h: one iteration of h was started, every element was
\* pulled once, and the final one was returned (empty: what the call gives on no element)
ScannedToLast(out, h) ==
  /\ SessionsOn(out.ev, h) = 1
  /\ YieldValues(out.ev) = Iterated(h)
  /\ Iterated(h) # <<>> => out.err = "" /\ out.v = Iterated(h)[Len(Iterated(h))]

\* C23: first() equals elementAt(0) and last() equals elementAt(count() - 1); on a
\* non-seekable Handle last() (and lastOrDefault()) starts exactly one iteration session,
\* pulls every element of it once, and returns the final element pulled, while on a seekable
\* Handle it starts none.
C23_FirstLast ==
  \A h \in Handles : (Seekable(h) \/ Iterable(h)) =>
    /\ SameOutcome(First(heap, h), ElementAt(heap, h, 0))
    /\ SameOutcome(Last(heap, h), ElementAt(heap, h, CountOp(heap, h).v - 1))
    /\ ~Seekable(h) =>
         /\ ScannedToLast(Last(heap, h), h)
         /\ ScannedToLast(LastOrDefault(heap, h), h)
         /\ Iterated(h) = <<>> =>
              Last(heap, h).err # "" /\ Result(LastOrDefault(heap, h)) = Returned(Undefined)
    /\ Seekable(h) =>
         Sessions(Last(heap, h).ev) = 0 /\ Sessions(LastOrDefault(heap, h).ev) = 0

\* a is the start of b
IsPrefix(a, b) == Len(a) <= Len(b) /\ SubSeq(b, 1, Len(a)) = a

RECURSIVE BuiltThrough(_)
BuiltThrough(h) ==
  \/ heap[h]._src.t \in {"array", "string", "genfn"}
  \/ /\ heap[h]._src.t \in {"selectGen", "takeGen", "skipGen", "concatGen"}
     /\ \A P \in AncestorsOf(heap, h) : BuiltThrough(P)

\* C25: positional access and iteration agree: for every Handle H built from a re-iterable
\* source through select, take, skip, concat and splice (selectors that use their index
\* argument and negative take/skip arguments included), H.toArray() equals the sequence
\* yielded by iterating H, and for every i in [0, H.count()) H.elementAt(i) equals the i-th
\* element yielded.
C25_SeekAgreesWithScan ==
  \A h \in Handles :
    BuiltThrough(h) =>
      Let(Iterated(h), LAMBDA items :
        /\ Result(ToArray(heap, h)) = [v |-> 0, arr |-> items, err |-> ""]
        /\ \A i \in 0..(CountOp(heap, h).v - 1) :
             /\ i < Len(items)
             /\ Result(ElementAt(heap, h, i)) = Returned(items[i + 1]))

\* C26: early termination: iterating take(n) to completion, for every n >= 0, pulls at most
\* n elements from the parent's iteration session and then stops it, and a scan-based
\* elementAt(i) pulls at most i + 1 elements; so both end over an unbounded generator source
\* and never force a full evaluation of the parent.
C26_EarlyTermination ==
  /\ \A s \in 1..Len(iterators) :
       heap[iterators[s].h]._src.t = "takeGen" =>
         /\ iterators[s].f.pulled <= heap[iterators[s].h]._src.nr
         /\ Len(iterators[s].out) <= heap[iterators[s].h]._src.nr
         /\ iterators[s].done => iterators[s].f.inner = <<>>
  /\ \A h \in Handles, i \in 0..MaxLen :
       Scanning(heap, h) => ElementAtScanning(heap, h, i).pulled <= i + 1

=============================================================================
